---- MODULE Spec2Model ----
(***************************************************************************)
(* The job-posting verification pipeline: one JobContext threaded through  *)
(* the compiled agent graph by ParentOrchestrator.process_job.             *)
(*                                                                         *)
(* Text is modelled by what the agents read from it: a description is a    *)
(* record of its length, its word count and the vocabulary (scam phrases,  *)
(* e-mail addresses, channels, salary figures) that occurs in it; a domain *)
(* is its sequence of labels; a Python dict is a function whose DOMAIN is  *)
(* the set of keys present; None is the value Null.                        *)
(***************************************************************************)
EXTENDS Integers, Sequences, FiniteSets, TLC

VARIABLES
    pc,          \* where the request is: "idle", the graph node about to run, "END", "raising", "returned", "escaped"
    context,     \* the JobContext of the request
    executed,    \* the graph nodes that have run for the request, in order
    exception,   \* the exception in flight or escaped: [type, origin, msg]; type "None" when there is none
    result,      \* what process_job returned to the caller
    llm,         \* process-wide state of app/services/llm.py: PROVIDER, mistral readiness, _OLLAMA_AVAILABLE
    open_web,    \* what open-web searches return while the request runs
    audit        \* history of the request: how the fetch went, what risk synthesis decided on the way

vars == <<pc, context, executed, exception, result, llm, open_web, audit>>

-----------------------------------------------------------------------------
(* Python values *)

Null == "<None>"

Min(a, b) == IF a < b THEN a ELSE b
Max(a, b) == IF a > b THEN a ELSE b

Contains(seq, x) == \E i \in 1..Len(seq) : seq[i] = x

\* the sequences over S of length at most n
SeqsUpTo(S, n) == UNION {[1..k -> S] : k \in 0..n}

\* dict operations
EmptyDict == [k \in {} |-> Null]
Has(d, k) == k \in DOMAIN d
Get(d, k, default) == IF k \in DOMAIN d THEN d[k] ELSE default
Put(d, k, v) == [x \in DOMAIN d \cup {k} |-> IF x = k THEN v ELSE d[x]]
Update(d, e) == [x \in DOMAIN d \cup DOMAIN e |-> IF x \in DOMAIN e THEN e[x] ELSE d[x]]

\* d[k] = v when cond holds
PutIf(cond, d, k, v) == IF cond THEN Put(d, k, v) ELSE d

\* d.setdefault(k1, {})[k2] = v
PutIn(d, k1, k2, v) == Put(d, k1, Put(Get(d, k1, EmptyDict), k2, v))

\* d.setdefault("insights", {}).setdefault(section, {})[key] = v
PutInsight(meta, section, key, v) ==
    LET insights == Get(meta, "insights", EmptyDict)
    IN  Put(meta, "insights", PutIn(insights, section, key, v))

\* domains as label sequences: "a in b" on a whole number of labels
IsInfix(a, b) ==
    \E i \in 0..(Len(b) - Len(a)) : \A j \in 1..Len(a) : b[i + j] = a[j]
IsSuffix(a, b) ==
    Len(a) <= Len(b) /\ \A j \in 1..Len(a) : b[Len(b) - Len(a) + j] = a[j]

-----------------------------------------------------------------------------
(* app/utils/constants.py *)

TOKEN_LIMIT == 200

TRUSTED_DOMAINS ==
    { <<"amazon", "jobs">>, <<"careers", "google", "com">>, <<"jobs", "apple", "com">>,
      <<"careers", "microsoft", "com">>, <<"jobs", "netflix", "com">>, <<"linkedin", "com">>,
      <<"indeed", "com">>, <<"glassdoor", "com">>, <<"monster", "com">>,
      <<"careerbuilder", "com">>, <<"ziprecruiter", "com">>, <<"oraclecloud", "com">>,
      <<"oracle", "com">> }

TRUSTED_ENTERPRISE_SUFFIXES ==
    { <<"amazon", "com">>, <<"amazon", "jobs">>, <<"google", "com">>, <<"alphabet", "com">>,
      <<"microsoft", "com">>, <<"apple", "com">>, <<"meta", "com">>, <<"linkedin", "com">>,
      <<"oracle", "com">>, <<"oraclecloud", "com">>, <<"workday", "com">>,
      <<"salesforce", "com">>, <<"indeed", "com">>, <<"glassdoor", "com">> }

GENERIC_EMAIL_DOMAINS ==
    { <<"gmail", "com">>, <<"yahoo", "com">>, <<"hotmail", "com">>, <<"outlook", "com">>,
      <<"protonmail", "com">>, <<"icloud", "com">> }

JOB_BOARD_DOMAINS ==
    { <<"linkedin", "com">>, <<"indeed", "com">>, <<"glassdoor", "com">>, <<"monster", "com">>,
      <<"careerbuilder", "com">>, <<"ziprecruiter", "com">>, <<"lever", "co">>,
      <<"greenhouse", "io">>, <<"workday", "com">> }

TRUSTED_BRAND_KEYWORDS ==
    { "amazon", "google", "microsoft", "apple", "netflix", "meta", "linkedin", "indeed",
      "glassdoor", "monster", "ziprecruiter", "careerbuilder", "oracle" }

SUSPICIOUS_TLDS == {"xyz", "top", "store", "site", "click", "info"}

EXTREME_SCAM_PHRASES ==
    <<"send money", "cash daily guaranteed", "pay upfront fee", "send gift card">>

CRITICAL_FINANCIAL_FLAGS ==
    <<"send bitcoin", "wire money upfront", "purchase gift card">>

\* the weights in hundredths, so that flag_count * 15 * weight stays an integer
\* (0.1 -> 10, 0.8 -> 80, 0.9 -> 90, 1.4 -> 140, 0.6 -> 60); the order is the
\* dict's insertion order, which the loop of RiskSynthesisAgent.run follows
CATEGORY_WEIGHTS ==
    << <<"acquisition", 10>>, <<"content", 80>>, <<"verification", 90>>,
       <<"financial", 140>>, <<"intelligence", 60>> >>

-----------------------------------------------------------------------------
(* JobContext and its flag ledger *)

NoDescription ==
    [kind |-> "None", chars |-> 0, words |-> 0, indicator |-> FALSE, phrases |-> {},
     emails |-> {}, channels |-> <<>>, salaries |-> {}]

JobContext(url) ==
    [url |-> url,
     raw_html |-> Null,
     title |-> Null,
     company |-> Null,
     description |-> NoDescription,
     trimmed_description |-> NoDescription,
     contact_emails |-> {},
     contact_channels |-> <<>>,
     salary_mentions |-> {},
     meta |-> EmptyDict,
     flags |-> [c \in {"acquisition", "content", "verification", "financial", "intelligence"} |-> <<>>]]

\* an add_flag that puts a new message in front
AddFlagInFront(flags, category, message) ==
    LET bucket == Get(flags, category, <<>>)
    IN  Put(flags, category,
            IF Contains(bucket, message) THEN bucket ELSE <<message>> \o bucket)

\* an add_flag that appends without looking
AddFlagAlways(flags, category, message) ==
    Put(flags, category, Append(Get(flags, category, <<>>), message))

\* bucket = self.flags.setdefault(category, []); append unless already there
add_flag(flags, category, message) ==
    LET bucket == Get(flags, category, <<>>)
    IN  Put(flags, category,
            IF Contains(bucket, message) THEN bucket ELSE Append(bucket, message))

\* add_flag when cond holds
FlagIf(cond, flags, category, message) ==
    IF cond THEN add_flag(flags, category, message) ELSE flags

\* add_flag for each message of a sequence, in order
RECURSIVE add_flags(_, _, _)
add_flags(flags, category, messages) ==
    IF messages = <<>> THEN flags
    ELSE add_flags(add_flag(flags, category, Head(messages)), category, Tail(messages))

-----------------------------------------------------------------------------
(* app/services/llm.py: the LLM gateway *)

\* the configurations a process can start in: PROVIDER from the settings,
\* _MISTRAL_AVAILABLE and bool(MISTRAL_API_KEY) from import time, the ollama
\* probe not yet made
LlmConfigs ==
    { [PROVIDER |-> "mistral", mistral_ready |-> TRUE,  ollama_available |-> "None"],
      [PROVIDER |-> "mistral", mistral_ready |-> FALSE, ollama_available |-> "None"],
      [PROVIDER |-> "ollama",  mistral_ready |-> FALSE, ollama_available |-> "None"] }

\* what the network can do to one call: answer, fail (connection error, timeout,
\* non-2xx status, rejected key), or answer 200 with a body that does not decode
Transports == {"ok", "error", "undecodable"}

\* the probes a call may have to make: GET /api/tags is sent only while the
\* cache is empty, and only by the ollama provider
Probes(l) ==
    IF l.PROVIDER = "ollama" /\ l.ollama_available = "None" THEN {TRUE, FALSE} ELSE {FALSE}

\* _ensure_ollama_available: the cached answer, else the probe's (ping.ok, or
\* False on a RequestException)
_ensure_ollama_available(l, probe) ==
    IF l.ollama_available # "None" THEN l.ollama_available = "True" ELSE probe

\* the module state after a call that goes through _ensure_ollama_available
AfterProbe(l, probe) ==
    IF l.PROVIDER = "ollama" /\ l.ollama_available = "None"
    THEN [l EXCEPT !.ollama_available = IF probe THEN "True" ELSE "False"]
    ELSE l

llm_available(l, probe) ==
    IF l.PROVIDER = "ollama" THEN _ensure_ollama_available(l, probe) ELSE l.mistral_ready

\* _ollama_chat: "none" when the endpoint is unavailable or requests raises a
\* RequestException inside the try; response.json() is outside the try, so a
\* body that is not JSON raises; an empty content is None
_ollama_chat(l, probe, transport, empty) ==
    IF ~_ensure_ollama_available(l, probe) THEN "none"
    ELSE IF transport = "error" THEN "none"
    ELSE IF transport = "undecodable" THEN "raise"
    ELSE IF empty THEN "none" ELSE "text"

\* chat: "text" (the reply comes back), "none" (None) or "raise".  With the
\* mistral provider every failure of client.chat.complete is caught
chat(l, probe, transport, empty) ==
    IF l.PROVIDER = "ollama" THEN _ollama_chat(l, probe, transport, empty)
    ELSE IF ~l.mistral_ready THEN "none"
    ELSE IF transport # "ok" THEN "none"
    ELSE IF empty THEN "none" ELSE "text"

\* structured_chat: chat, then json.loads; text that is not JSON is None.
\* "json" means the parsed value comes back (a dict or not: the caller checks)
structured_chat(l, probe, transport, empty, is_json) ==
    LET raw == chat(l, probe, transport, empty)
    IN  IF raw = "text" THEN (IF is_json THEN "json" ELSE "none") ELSE raw

\* the exception a raising gateway call leaves in flight
GatewayError(origin) ==
    [type |-> "JSONDecodeError", origin |-> origin, msg |-> "llm gateway: response body is not JSON"]

NoException == [type |-> "None", origin |-> "", msg |-> ""]

-----------------------------------------------------------------------------
(* app/agents/risk_synthesis.py *)

\* the sanity-check replies: the verdict words the reply text contains
SanityReplies == SUBSET {"legit", "suspicious", "fake"}

\* the narrative _llm_generate_summary gets when the reply has a content
Narrative == "Summary of the investigation."

FlagCount(flags, category) == Len(Get(flags, category, <<>>))

\* a counter over every category of the ledger
FlagCounterOfLedger(flags) == [c \in DOMAIN flags |-> FlagCount(flags, c)]

\* flag_counter after the loop over CATEGORY_WEIGHTS: only the weighted categories
flag_counter(flags) ==
    [c \in {CATEGORY_WEIGHTS[i][1] : i \in 1..Len(CATEGORY_WEIGHTS)} |-> FlagCount(flags, c)]

CounterTotal(counter) ==
    LET RECURSIVE Sum(_)
        Sum(S) == IF S = {} THEN 0 ELSE LET c == CHOOSE x \in S : TRUE IN counter[c] + Sum(S \ {c})
    IN  Sum(DOMAIN counter)

\* an acquisition weight that goes up on a trusted domain
EffectiveWeightRaised(category, weight, is_trusted) ==
    IF category = "acquisition" /\ is_trusted THEN 50 ELSE weight

\* the weight used for a category, in hundredths: 0.05 for acquisition on a trusted domain
EffectiveWeight(category, weight, is_trusted) ==
    IF category = "acquisition" /\ is_trusted THEN 5 ELSE weight

\* weighted_total in hundredths: sum of flag_count * 15 * weight
RECURSIVE WeightedTotalFrom(_, _, _)
WeightedTotalFrom(i, flags, is_trusted) ==
    IF i > Len(CATEGORY_WEIGHTS) THEN 0
    ELSE FlagCount(flags, CATEGORY_WEIGHTS[i][1]) * 15
            * EffectiveWeight(CATEGORY_WEIGHTS[i][1], CATEGORY_WEIGHTS[i][2], is_trusted)
         + WeightedTotalFrom(i + 1, flags, is_trusted)

weighted_total(flags, is_trusted) == WeightedTotalFrom(1, flags, is_trusted)

\* a round() that cuts the fraction off, as int() does
RoundDown(x) == x \div 100

\* Python round() of x/100: to nearest, ties to the even integer
round(x) ==
    LET q == x \div 100
        r == x % 100
    IN  IF r > 50 THEN q + 1
        ELSE IF r < 50 THEN q
        ELSE IF q % 2 = 0 THEN q ELSE q + 1

\* a risk score that wraps around at 100 instead of stopping there
RiskScoreWrapping(flags, is_trusted) == round(weighted_total(flags, is_trusted)) % 100

\* risk_score = min(100, round(weighted_total)) if total_weight else 0; total_weight is
\* the positive sum of the weights
risk_score_of(flags, is_trusted) == Min(100, round(weighted_total(flags, is_trusted)))

\* _derive_verdict without its incomplete_data rule
DeriveVerdictWithoutIncompleteRule(risk_score, counter, is_trusted, scraping_incomplete) ==
    LET financial_flags == Get(counter, "financial", 0)
        content_flags == Get(counter, "content", 0)
    IN  IF financial_flags >= 3 THEN "fake"
        ELSE IF risk_score >= 85 THEN "fake"
        ELSE IF risk_score >= 60 \/ (financial_flags >= 2 /\ content_flags >= 2) THEN "suspicious"
        ELSE "legit"

\* _derive_verdict with the thresholds of src/jobverifier/agents/risk_synthesis.py
DeriveVerdictLegacyThresholds(risk_score, counter, is_trusted, scraping_incomplete) ==
    LET acquisition_flags == Get(counter, "acquisition", 0)
        other_flags == CounterTotal(counter) - acquisition_flags
        financial_flags == Get(counter, "financial", 0)
    IN  IF is_trusted /\ scraping_incomplete /\ other_flags = 0 THEN "incomplete_data"
        ELSE IF risk_score >= 70 \/ financial_flags >= 2 THEN "fake"
        ELSE IF risk_score >= 45 \/ CounterTotal(counter) >= 4 THEN "suspicious"
        ELSE "legit"

_derive_verdict(risk_score, counter, is_trusted, scraping_incomplete) ==
    LET acquisition_flags == Get(counter, "acquisition", 0)
        other_flags == CounterTotal(counter) - acquisition_flags
        financial_flags == Get(counter, "financial", 0)
        content_flags == Get(counter, "content", 0)
    IN  IF is_trusted /\ scraping_incomplete /\ other_flags = 0 THEN "incomplete_data"
        ELSE IF financial_flags >= 3 THEN "fake"
        ELSE IF risk_score >= 85 THEN "fake"
        ELSE IF risk_score >= 60 \/ (financial_flags >= 2 /\ content_flags >= 2) THEN "suspicious"
        ELSE "legit"

\* the parse of the sanity-check reply: first of legit, suspicious, fake that the
\* lowered text contains, else None
ParseSanityReply(words) ==
    IF "legit" \in words THEN "legit"
    ELSE IF "suspicious" \in words THEN "suspicious"
    ELSE IF "fake" \in words THEN "fake"
    ELSE Null

\* _llm_sanity_check: a verdict, None, or "raise" when the gateway raises
_llm_sanity_check(l, probe, transport, words) ==
    LET response == chat(l, probe, transport, FALSE)
    IN  IF response = "raise" THEN "raise"
        ELSE IF response = "text" THEN ParseSanityReply(words)
        ELSE Null

\* a run() that asked for a second opinion on every verdict
SanityCheckOnEveryVerdict(l, probe, verdict) == llm_available(l, probe)

\* whether run() makes the sanity-check call
SanityCheckCalled(l, probe, verdict) ==
    llm_available(l, probe) /\ verdict \in {"fake", "suspicious"}

\* the verdict after the sanity check
OutgoingVerdict(verdict, llm_verdict) ==
    IF llm_verdict # Null /\ llm_verdict # verdict THEN llm_verdict ELSE verdict

\* a run() that stored the heuristic verdict whatever the sanity check said
MetaAlwaysKeepsHeuristic(meta, verdict, llm_verdict) ==
    PutInsight(meta, "risk_synthesis", "heuristic_verdict", verdict)

\* the metadata after the sanity check: the heuristic verdict is stored only on override
MetaAfterSanity(meta, verdict, llm_verdict) ==
    IF llm_verdict # Null /\ llm_verdict # verdict
    THEN PutInsight(meta, "risk_synthesis", "heuristic_verdict", verdict)
    ELSE meta

\* an update that brings the risk score below 60 when the verdict is legit
MetaAfterSynthesisFittingVerdict(meta, risk_score, verdict, counter) ==
    LET fitted == IF verdict = "legit" THEN Min(risk_score, 59) ELSE risk_score
    IN  Update(meta,
            [risk_score |-> fitted,
             confidence |-> Max(0, Min(100, 100 - fitted)),
             verdict |-> verdict,
             flag_summary |-> counter,
             content_score |-> Get(meta, "content_score", 75),
             verification_score |-> Get(meta, "verification_score", 75),
             financial_score |-> Get(meta, "financial_score", 100)])

\* context.meta.update({...}) at the end of run()
MetaAfterSynthesis(meta, risk_score, verdict, counter) ==
    Update(meta,
        [risk_score |-> risk_score,
         confidence |-> Max(0, Min(100, 100 - risk_score)),
         verdict |-> verdict,
         flag_summary |-> counter,
         content_score |-> Get(meta, "content_score", 75),
         verification_score |-> Get(meta, "verification_score", 75),
         financial_score |-> Get(meta, "financial_score", 100)])

\* "insights"["risk_summary"] = narrative, when the narrative is not empty
MetaAfterSummary(meta, status, narrative) ==
    IF status = "text" /\ narrative # ""
    THEN Put(meta, "insights", Put(Get(meta, "insights", EmptyDict), "risk_summary", narrative))
    ELSE meta

NoAudit ==
    [fetch |-> "none", render_failed |-> FALSE, paywall |-> FALSE,
     ran |-> FALSE, heuristic_verdict |-> Null, sanity_called |-> FALSE,
     llm_ready |-> FALSE, sanity_reply |-> {}, llm_verdict |-> Null, risk_score |-> 0]

-----------------------------------------------------------------------------
(* app/agents/data_acquisition.py *)

\* a URL: its netloc (labels), whether its path is /jobs/view/<id>, the id's
\* characters, and the characters of a currentJobId query parameter
LinkedInNetloc == <<"www", "linkedin", "com">>

IsDigit(ch) == ch \in {"0", "1", "2", "3", "4", "5", "6", "7", "8", "9"}

\* the match of (\d+) at the start of an id: its longest prefix of digits
RECURSIVE DigitPrefix(_)
DigitPrefix(id) ==
    IF id = <<>> \/ ~IsDigit(Head(id)) THEN <<>> ELSE <<Head(id)>> \o DigitPrefix(Tail(id))

ViewUrl(id) == [netloc |-> LinkedInNetloc, view |-> TRUE, id |-> id, currentJobId |-> <<>>]

_normalize_linkedin_url(url) ==
    IF url.currentJobId # <<>> THEN ViewUrl(url.currentJobId)
    ELSE IF url.view /\ DigitPrefix(url.id) # <<>> THEN ViewUrl(DigitPrefix(url.id))
    ELSE url

\* a trust test by membership instead of by substring
IsTrustedDomainExact(domain) == domain \in TRUSTED_DOMAINS

\* is_trusted = any(trusted in domain for trusted in TRUSTED_DOMAINS)
IsTrustedDomain(domain) == \E trusted \in TRUSTED_DOMAINS : IsInfix(trusted, domain)

PlaceholderDescription ==
    [kind |-> "placeholder", chars |-> 21, words |-> 3, indicator |-> FALSE, phrases |-> {},
     emails |-> {}, channels |-> <<>>, salaries |-> {}]

NoPage ==
    [html |-> FALSE, title |-> Null, company |-> Null, description |-> PlaceholderDescription,
     login_form |-> FALSE]

\* desc_length: the placeholder counts as 0
DescLength(description) == IF description.kind = "text" THEN description.chars ELSE 0

\* words of f"{title} {description}": the title's ("Title not found" has 3) plus the description's
FullTextWords(title, description) ==
    (IF title = "Title not found" THEN 3 ELSE 2) + description.words

\* _detect_paywall(soup, full_text)
_detect_paywall(login_form, indicator, words) ==
    (indicator /\ words < 100) \/ login_form

\* _trim_description: the first TOKEN_LIMIT tokens joined by single spaces
_trim_description(description) ==
    IF description.kind = "None" THEN description
    ELSE IF description.words <= TOKEN_LIMIT THEN description
    ELSE [description EXCEPT !.words = TOKEN_LIMIT,
                             !.chars = (description.chars * TOKEN_LIMIT) \div description.words]

\* the description run() works with after the plain fetch
ScrapedDescription(page) ==
    IF page.description.kind = "text" THEN page.description ELSE PlaceholderDescription

\* step 1 of run(): the scrape state after the plain fetch,
\* st = [title, company, description, login_form, method, desc_length]
InitialScrape(page) ==
    [title |-> IF page.title # Null THEN page.title ELSE "Title not found",
     company |-> IF page.company # Null THEN page.company ELSE "Company not found",
     description |-> ScrapedDescription(page),
     login_form |-> page.login_form,
     method |-> "requests",
     desc_length |-> DescLength(ScrapedDescription(page))]

\* whether step 2 escalates to JavaScript rendering
Escalates(st0, use_browser, is_trusted) == st0.desc_length < 100 /\ use_browser /\ is_trusted

\* a rendering attempt that accepts a description that is not shorter
RenderStepNotShorter(st, attempted, rendered, method) ==
    IF attempted /\ rendered.html /\ rendered.description.kind = "text"
       /\ rendered.description.chars >= st.desc_length
    THEN [title |-> IF rendered.title # Null THEN rendered.title ELSE st.title,
          company |-> IF rendered.company # Null THEN rendered.company ELSE st.company,
          description |-> rendered.description,
          login_form |-> rendered.login_form,
          method |-> method,
          desc_length |-> rendered.description.chars]
    ELSE st

\* one rendering attempt (Playwright or Selenium): the scrape state after it
RenderStep(st, attempted, rendered, method) ==
    IF attempted /\ rendered.html /\ rendered.description.kind = "text"
       /\ rendered.description.chars > st.desc_length
    THEN [title |-> IF rendered.title # Null THEN rendered.title ELSE st.title,
          company |-> IF rendered.company # Null THEN rendered.company ELSE st.company,
          description |-> rendered.description,
          login_form |-> rendered.login_form,
          method |-> method,
          desc_length |-> rendered.description.chars]
    ELSE st

AfterPlaywright(st0, is_trusted, use_browser, playwright, pw_page) ==
    RenderStep(st0, Escalates(st0, use_browser, is_trusted) /\ playwright, pw_page, "playwright")

\* whether run() called _fetch_with_selenium
SeleniumTried(st0, st1, is_trusted, use_browser, selenium) ==
    Escalates(st0, use_browser, is_trusted) /\ st1.desc_length < 100 /\ selenium

AfterSelenium(st0, st1, is_trusted, use_browser, selenium, sel_page) ==
    RenderStep(st1, SeleniumTried(st0, st1, is_trusted, use_browser, selenium), sel_page,
               "selenium")

\* steps 1 and 2 of run(): plain fetch, then escalation on a short description
Scrape(page, is_trusted, use_browser, playwright, selenium, pw_page, sel_page) ==
    AfterSelenium(InitialScrape(page),
                  AfterPlaywright(InitialScrape(page), is_trusted, use_browser, playwright, pw_page),
                  is_trusted, use_browser, selenium, sel_page)

\* whether a rendering attempt was made and returned None
RenderFailed(page, is_trusted, use_browser, playwright, selenium, pw_page, sel_page) ==
    \/ Escalates(InitialScrape(page), use_browser, is_trusted) /\ playwright /\ ~pw_page.html
    \/ SeleniumTried(InitialScrape(page),
                     AfterPlaywright(InitialScrape(page), is_trusted, use_browser, playwright,
                                     pw_page),
                     is_trusted, use_browser, selenium)
       /\ ~sel_page.html

FetchErrorMessage == "Failed to fetch URL: request failed"

PaywallMessage ==
    "Cannot access job posting - login required. Detected signs of authentication wall. "
    \o "For LinkedIn jobs, you may need to be logged in. Try: 1) Log into LinkedIn in browser, "
    \o "2) Use Indeed/Glassdoor, 3) Visit company career page directly. Original URL: <url>"

\* the acquisition flag and the reason recorded for a short description
ShortDescriptionFlag(is_trusted, method, desc_length, use_browser, playwright, selenium) ==
    IF is_trusted
    THEN IF method = "requests"
         THEN IF (playwright \/ selenium) /\ ~use_browser
              THEN "Unable to extract full description - site uses JavaScript. Browser support available but disabled."
              ELSE IF ~(playwright \/ selenium)
              THEN "Unable to extract full description - install selenium/playwright for JS rendering support."
              ELSE "Unable to extract full description even with requests. Visit URL directly."
         ELSE "Description still short after " \o method \o " rendering (" \o ToString(desc_length) \o " chars)"
    ELSE "Job description very short (" \o ToString(desc_length) \o " chars) - may be incomplete or behind paywall"

\* a reason that does not look at whether browser automation is enabled
ShortDescriptionReasonOfEngines(is_trusted, method, use_browser, playwright, selenium) ==
    IF is_trusted
    THEN IF method = "requests"
         THEN IF ~(playwright \/ selenium)
              THEN "Install Playwright or Selenium to render the full job posting."
              ELSE "JavaScript rendering attempted but content remained truncated."
         ELSE "Content remained short after " \o method \o " rendering."
    ELSE "Non-trusted domain with very short content; manual review required."

\* incomplete_reason of the short-description branch
ShortDescriptionReason(is_trusted, method, use_browser, playwright, selenium) ==
    IF is_trusted
    THEN IF method = "requests"
         THEN IF (playwright \/ selenium) /\ ~use_browser
              THEN "Browser automation disabled; page likely requires JavaScript to render."
              ELSE IF ~(playwright \/ selenium)
              THEN "Install Playwright or Selenium to render the full job posting."
              ELSE "JavaScript rendering attempted but content remained truncated."
         ELSE "Content remained short after " \o method \o " rendering."
    ELSE "Non-trusted domain with very short content; manual review required."

\* missing e-mail and salary flagged on every domain, trusted or not
MissingDataFlagsEverywhere(st, is_trusted) ==
    (IF st.description.emails = {}
     THEN <<"No contact email found - verification limited">> ELSE <<>>)
    \o (IF st.description.salaries = {}
        THEN <<"No salary information found - financial analysis limited">> ELSE <<>>)

\* the flags added after the length check: missing title, missing description,
\* no e-mail and no salary on an untrusted domain
MissingDataFlags(st, is_trusted) ==
    (IF st.title = "Title not found" THEN <<"Job title missing from page">> ELSE <<>>)
    \o (IF st.description.kind = "placeholder"
        THEN IF is_trusted
             THEN <<"Unable to extract description from trusted site - may require JavaScript">>
             ELSE <<"Job description missing from page">>
        ELSE <<>>)
    \o (IF st.description.emails = {} /\ ~is_trusted
        THEN <<"No contact email found - verification limited">> ELSE <<>>)
    \o (IF st.description.salaries = {} /\ ~is_trusted
        THEN <<"No salary information found - financial analysis limited">> ELSE <<>>)

\* a run() that also gave up when a rendering attempt failed
RaisesOnRenderFailure(paywall, render_failed) == paywall \/ render_failed

\* whether run() raises AgentError once the page is scraped: on a detected paywall,
\* whatever the rendering attempts did
RaisesAfterScrape(paywall, render_failed) == paywall

\* the URL run() works on: LinkedIn URLs in their job-view form
WorkingUrl(url) ==
    IF IsInfix(<<"linkedin", "com">>, url.netloc) THEN _normalize_linkedin_url(url) ELSE url

\* insights["scraping"] at the end of run()
ScrapingInsight(st, reason) ==
    [method |-> st.method, description_length |-> st.desc_length, last_updated |-> "utcnow",
     status |-> IF st.desc_length < 100 THEN "incomplete" ELSE "complete",
     reason |-> IF st.desc_length < 100 THEN reason
                ELSE "Description length sufficient for analysis."]

\* context.meta at the end of run()
AcquisitionMeta(meta, st, is_trusted, url, reason, token_count) ==
    LET short == st.desc_length < 100
        m0 == Update(meta,
                [scraping_method |-> st.method, rendered_html_method |-> st.method,
                 rendered_html |-> "html"])
        m1 == PutIn(m0, "insights", "scraping", ScrapingInsight(st, reason))
        m2 == PutIf(is_trusted, m1, "trusted_domain", TRUE)
        m3 == PutIf(short /\ is_trusted, m2, "scraping_incomplete", TRUE)
        m4 == PutIf(short, m3, "scraping_incomplete_reason", reason)
        m5 == PutIf(~short /\ st.method # "requests", m4, "js_rendering_used", TRUE)
        m6 == Update(m5,
                [scraped_at |-> "utcnow", source_domain |-> url.netloc,
                 token_count |-> token_count])
        m7 == PutIf(st.description.emails = {} /\ is_trusted, m6, "no_email_expected", TRUE)
    IN  PutIf(st.description.salaries = {} /\ is_trusted, m7, "no_salary_expected", TRUE)

\* context.meta when run() raises for a paywall
PaywallMeta(meta, st) ==
    PutIn(Update(meta,
            [scraping_method |-> st.method, rendered_html_method |-> st.method,
             rendered_html |-> "html"]),
          "insights", "scraping",
          [method |-> st.method, description_length |-> st.desc_length,
           last_updated |-> "utcnow"])

\* context.flags at the end of run()
AcquisitionFlags(flags, st, is_trusted, use_browser, playwright, selenium) ==
    add_flags(FlagIf(st.desc_length < 100, flags, "acquisition",
                     ShortDescriptionFlag(is_trusted, st.method, st.desc_length, use_browser,
                                          playwright, selenium)),
              "acquisition", MissingDataFlags(st, is_trusted))

\* run() from the paywall test on, for the scrape state st:
\* [raised, msg, context, paywall, render_failed]
Acquired(ctx, url, is_trusted, st, render_failed, use_browser, playwright, selenium) ==
    IF RaisesAfterScrape(_detect_paywall(st.login_form, st.description.indicator,
                                         FullTextWords(st.title, st.description)),
                         render_failed)
    THEN [raised |-> TRUE, msg |-> PaywallMessage,
          paywall |-> _detect_paywall(st.login_form, st.description.indicator,
                                      FullTextWords(st.title, st.description)),
          render_failed |-> render_failed,
          context |-> [ctx EXCEPT !.url = url, !.title = st.title, !.company = st.company,
                                  !.description = st.description, !.raw_html = "html",
                                  !.meta = PaywallMeta(ctx.meta, st),
                                  !.flags = add_flag(ctx.flags, "acquisition",
                                                "Page requires login or authentication")]]
    ELSE [raised |-> FALSE, msg |-> "", paywall |-> FALSE, render_failed |-> render_failed,
          context |-> [ctx EXCEPT !.url = url, !.title = st.title, !.company = st.company,
                                  !.description = st.description, !.raw_html = "html",
                                  !.trimmed_description = _trim_description(st.description),
                                  !.contact_emails = st.description.emails,
                                  !.contact_channels = st.description.channels,
                                  !.salary_mentions = st.description.salaries,
                                  !.meta = AcquisitionMeta(ctx.meta, st, is_trusted, url,
                                              ShortDescriptionReason(is_trusted, st.method,
                                                  use_browser, playwright, selenium),
                                              _trim_description(st.description).words),
                                  !.flags = AcquisitionFlags(ctx.flags, st, is_trusted,
                                                use_browser, playwright, selenium)]]

\* run() after a plain fetch that returned `page`, for the working URL
AcquireFrom(ctx, url, page, use_browser, playwright, selenium, pw_page, sel_page) ==
    Acquired(ctx, url, IsTrustedDomain(url.netloc),
             Scrape(page, IsTrustedDomain(url.netloc), use_browser, playwright, selenium,
                    pw_page, sel_page),
             RenderFailed(page, IsTrustedDomain(url.netloc), use_browser, playwright, selenium,
                          pw_page, sel_page),
             use_browser, playwright, selenium)

\* DataAcquisitionAgent.run after a plain fetch that returned `page`
DataAcquisitionRun(ctx, page, use_browser, playwright, selenium, pw_page, sel_page) ==
    AcquireFrom(ctx, WorkingUrl(ctx.url), page, use_browser, playwright, selenium, pw_page,
                sel_page)

\* DataAcquisitionAgent.run when the plain fetch fails: the URL is already normalised
DataAcquisitionFailed(ctx) == [ctx EXCEPT !.url = WorkingUrl(ctx.url)]

-----------------------------------------------------------------------------
(* app/agents/content_analysis.py *)

\* a score field of the LLM's JSON: absent, null, a word, or a number
Score(kind, n) == [kind |-> kind, n |-> n]

\* int(feedback.get(key, default)) raises TypeError on null and ValueError on a word
IntRaises(score) == score.kind \in {"null", "word"}
IntOf(score, default) == IF score.kind = "number" THEN score.n ELSE default

\* the exception of the first int() that fails: content_score is converted first
ScoreError(feedback) ==
    LET bad == IF IntRaises(feedback.content_score) THEN feedback.content_score
               ELSE feedback.financial_score
    IN  [type |-> IF bad.kind = "null" THEN "TypeError" ELSE "ValueError",
         origin |-> "content_analysis",
         msg |-> "int() of a score field of the LLM reply"]

Clamp(n) == Max(0, Min(100, n))

\* the phrases of the list that occur in the text, in list order, each behind the prefix
PhraseFlags(prefix, phrase_list, present) ==
    LET Occurs(p) == p \in present
        found == SelectSeq(phrase_list, Occurs)
    IN  [i \in 1..Len(found) |-> prefix \o found[i]]

PrefixAll(prefix, messages) == [i \in 1..Len(messages) |-> prefix \o messages[i]]

\* the entries of an LLM flag array that are non-empty strings
UsableFlags(messages) == LET NonEmpty(m) == m # "" IN SelectSeq(messages, NonEmpty)

\* _extract_job_role: the title up to " | " or " - "; the titles used here hold neither
_extract_job_role(title) == IF title = Null THEN "Unknown Role" ELSE title

\* the part of run() before the scraping_incomplete test
ContentPrologue(ctx) ==
    [ctx EXCEPT !.meta = Update(ctx.meta,
        [content_token_count |-> ctx.trimmed_description.words,
         job_role |-> _extract_job_role(ctx.title)])]

\* the branch taken when meta["scraping_incomplete"] is set
ContentSkipped(ctx) ==
    [ctx EXCEPT !.meta = Update(
        PutInsight(ctx.meta, "content_analysis", "note",
                   "Content analysis skipped due to incomplete scrape"),
        [content_score |-> 100, financial_score |-> 100])]

\* the branch taken when the trimmed description is empty
ContentMissing(ctx) ==
    [ctx EXCEPT !.flags = add_flag(ctx.flags, "content", "Job description missing or empty"),
                !.meta = Update(ctx.meta, [content_score |-> 50, financial_score |-> 100])]

_check_extreme_patterns(ctx) ==
    LET text == ctx.trimmed_description.phrases
        f1 == add_flags(ctx.flags, "content",
                  PhraseFlags("Extreme scam indicator: ", EXTREME_SCAM_PHRASES, text))
    IN  [ctx EXCEPT !.flags = add_flags(f1, "financial",
                  PhraseFlags("Extreme financial scam: ", CRITICAL_FINANCIAL_FLAGS, text))]

\* _process_llm_feedback, for a feedback whose score fields convert
_process_llm_feedback(ctx, feedback) ==
    LET content_score == Clamp(IntOf(feedback.content_score, 75))
        financial_score == Clamp(IntOf(feedback.financial_score, 100))
        m1 == PutInsight(PutInsight(ctx.meta, "content_analysis", "llm_summary", "summary"),
                         "content_analysis", "llm_confidence", 50)
        m2 == Update(m1, [content_score |-> content_score, financial_score |-> financial_score])
        f1 == add_flags(ctx.flags, "content", UsableFlags(feedback.risk_flags))
        f2 == add_flags(f1, "financial",
                  PrefixAll("Inappropriate data request: ", UsableFlags(feedback.pii_flags)))
        c1 == [ctx EXCEPT !.meta = m2, !.flags = f2]
    IN  IF content_score < 60 \/ financial_score < 60 THEN _check_extreme_patterns(c1) ELSE c1

_fallback_analysis(ctx) ==
    LET text == ctx.trimmed_description.phrases
        content == PhraseFlags("Critical scam phrase: ", EXTREME_SCAM_PHRASES, text)
        financial == PhraseFlags("Critical financial scam: ", CRITICAL_FINANCIAL_FLAGS, text)
        extreme_found == content # <<>> \/ financial # <<>>
        m1 == PutInsight(ctx.meta, "content_analysis", "note",
                         "LLM unavailable; using basic heuristics")
    IN  [ctx EXCEPT
            !.flags = add_flags(add_flags(ctx.flags, "content", content), "financial", financial),
            !.meta = Update(m1,
                IF extreme_found THEN [content_score |-> 30, financial_score |-> 20]
                ELSE [content_score |-> 75, financial_score |-> 90])]

\* ContentAnalysisAgent.run: [raised, error, context].  `status` is what
\* structured_chat gave ("json", "none", "raise"; "none" also when llm_available()
\* is false), `feedback` the parsed reply
ContentAnalysisRun(ctx0, status, feedback) ==
    LET ctx == ContentPrologue(ctx0)
        ok(c) == [raised |-> FALSE, error |-> NoException, context |-> c]
    IN  IF Get(ctx.meta, "scraping_incomplete", FALSE) THEN ok(ContentSkipped(ctx))
        ELSE IF ctx.trimmed_description.words = 0 THEN ok(ContentMissing(ctx))
        ELSE IF status = "raise"
        THEN [raised |-> TRUE, error |-> GatewayError("content_analysis"), context |-> ctx]
        ELSE IF status = "json" /\ feedback.form = "dict"
        THEN IF IntRaises(feedback.content_score) \/ IntRaises(feedback.financial_score)
             THEN [raised |-> TRUE, error |-> ScoreError(feedback), context |-> ctx]
             ELSE ok(_process_llm_feedback(ctx, feedback))
        ELSE ok(_fallback_analysis(ctx))

-----------------------------------------------------------------------------
(* app/agents/information_extraction.py *)

\* a profile.update() that also copies the keys the LLM left null
ProfileFieldFromLLM(payload, key, known) == IF payload.present THEN payload[key] ELSE known

\* _build_profile: the LLM's value for a key when it is not None, else the context's
ProfileField(payload, key, known) ==
    IF payload.present /\ payload[key] # Null THEN payload[key] ELSE known

\* no usable LLM response (llm_available() false, None, or JSON that is no dict)
NoPayload ==
    [present |-> FALSE, url |-> [netloc |-> <<>>], job_title |-> Null, company |-> Null,
     verified_domain |-> <<>>]

_build_profile(ctx, payload) ==
    [url |-> IF payload.present /\ payload.url.netloc # <<>> THEN payload.url ELSE ctx.url,
     job_title |-> ProfileField(payload, "job_title", ctx.title),
     company |-> ProfileField(payload, "company", ctx.company),
     verified_domain |-> IF payload.present /\ payload.verified_domain # <<>>
                         THEN payload.verified_domain
                         ELSE Get(ctx.meta, "source_domain", <<>>),
     authenticity_score |-> 0,
     skills |-> <<>>,
     scraped_at |-> Get(ctx.meta, "scraped_at", Null)]

\* InformationExtractionAgent.run for an LLM payload (NoPayload when there is none)
InformationExtractionRun(ctx, payload) ==
    LET profile == _build_profile(ctx, payload)
        m1 == Put(ctx.meta, "structured_profile", profile)
        m2 == PutInsight(m1, "information_extraction", "raw_llm_output",
                         IF payload.present THEN "payload" ELSE "None")
    IN  [ctx EXCEPT !.title = IF profile.job_title \notin {Null, ""} THEN profile.job_title
                              ELSE ctx.title,
                    !.company = IF profile.company \notin {Null, ""} THEN profile.company
                                ELSE ctx.company,
                    !.meta = m2]

-----------------------------------------------------------------------------
(* app/agents/company_intelligence.py and the OSINT half of source_verification.py *)

\* what the open web holds about the employer during one request
NoWeb ==
    [official_site |-> <<>>, web_presence |-> 0, hr_contacts |-> 0, press |-> 0,
     team_links |-> 0, filings |-> FALSE, reviews |-> FALSE, scam_hits |-> FALSE]

\* lowered.lstrip("www.") on labels, then the last two labels
_normalise_domain(domain) ==
    IF domain = <<>> THEN <<>>
    ELSE LET lowered == IF Head(domain) = "www" THEN Tail(domain) ELSE domain
         IN  IF Len(lowered) <= 2 THEN lowered ELSE SubSeq(lowered, Len(lowered) - 1, Len(lowered))

IsJobBoard(domain) == \E board \in JOB_BOARD_DOMAINS : IsInfix(board, domain)

\* _infer_company_domain: a non-generic e-mail domain, else a source domain that is no
\* job board, else the first search hit that is no job board
_infer_company_domain(ctx, web) ==
    LET candidates == {e.domain : e \in {x \in ctx.contact_emails :
                                            x.domain \notin GENERIC_EMAIL_DOMAINS /\ Len(x.domain) >= 2}}
        source_domain == Get(ctx.meta, "source_domain", <<>>)
    IN  IF candidates # {} THEN CHOOSE d \in candidates : TRUE
        ELSE IF source_domain # <<>> /\ ~IsJobBoard(source_domain) THEN source_domain
        ELSE IF ctx.company \notin {Null, ""} /\ ~IsJobBoard(web.official_site) THEN web.official_site
        ELSE <<>>

\* the lowered words of the company names used here
CompanyWords(company) ==
    CASE company = "Acme Corp" -> {"acme", "corp"}
      [] company = "Google" -> {"google"}
      [] company = "Company not found" -> {"company", "not", "found"}
      [] company = "Unknown" -> {"unknown"}
      [] OTHER -> {}

\* the trust inference shared by both agents
TrustInference(ctx, domain_candidate) ==
    \/ Get(ctx.meta, "trusted_domain", FALSE)
    \/ /\ domain_candidate # <<>>
       /\ \/ \E suffix \in TRUSTED_ENTERPRISE_SUFFIXES : IsSuffix(suffix, domain_candidate)
          \/ \E trusted \in TRUSTED_DOMAINS : IsInfix(trusted, domain_candidate)
    \/ /\ ctx.company \notin {Null, ""}
       /\ CompanyWords(ctx.company) \cap TRUSTED_BRAND_KEYWORDS # {}

\* CompanyIntelligenceAgent._score_legitimacy
CompanyScoreLegitimacy(has_domain, is_trusted, web_presence_count, hr_contact_count, press_count, team_link_count, has_filings, has_reviews, has_scam_hits) ==
    LET score == (IF is_trusted THEN 35 ELSE 20)
                 + (IF has_domain THEN 20 ELSE 0)
                 + Min(15, web_presence_count * 3)
                 + (IF hr_contact_count > 0 THEN Min(15, hr_contact_count * 3) ELSE 0)
                 + (IF press_count > 0 THEN Min(10, press_count * 2) ELSE 0)
                 + (IF team_link_count > 0 THEN Min(10, team_link_count * 3) ELSE 0)
                 + (IF has_filings THEN 10 ELSE 0)
                 + (IF has_reviews THEN 5 ELSE 0)
                 - (IF has_scam_hits THEN 25 ELSE 0)
    IN  Max(0, Min(100, score))

\* SourceVerificationAgent._score_legitimacy
SourceScoreLegitimacy(has_domain, is_trusted, web_presence_count, contact_count, press_count, team_link_count, has_filings) ==
    LET score == (IF is_trusted THEN 40 ELSE 25)
                 + (IF has_domain THEN 15 ELSE 0)
                 + (IF web_presence_count > 0 THEN Min(20, 4 * web_presence_count)
                    ELSE IF is_trusted THEN 10 ELSE 0)
                 + (IF contact_count > 0 THEN Min(20, 5 * contact_count)
                    ELSE IF is_trusted THEN 5 ELSE 0)
                 + Min(10, press_count * 3)
                 + Min(10, team_link_count * 5)
                 + (IF has_filings THEN 10 ELSE 0)
    IN  Max(0, Min(100, score))

\* the LLM's part in one OSINT pass: what structured_chat gave ("json", "none",
\* "raise"; "none" also when llm_available() is false), whether the contact
\* refinement emptied the lead list, and the alerts of the company assessment
NoCompanyAnswer == [status |-> "none", contacts_dropped |-> FALSE, alerts |-> <<>>]

\* CompanyIntelligenceAgent.run: [raised, error, context]
CompanyIntelligenceRun(ctx, web, answer) ==
    LET company_name == IF ctx.company = Null THEN "" ELSE ctx.company
        source_domain == Get(ctx.meta, "source_domain", <<>>)
        existing_intel == Get(ctx.meta, "company_intel", EmptyDict)
        inferred_domain == IF Get(existing_intel, "inferred_domain", <<>>) # <<>>
                           THEN existing_intel["inferred_domain"]
                           ELSE _infer_company_domain(ctx, web)
        normalised_domain ==
            _normalise_domain(IF Get(existing_intel, "company_domain", <<>>) # <<>>
                              THEN existing_intel["company_domain"]
                              ELSE IF inferred_domain # <<>> THEN inferred_domain
                              ELSE source_domain)
        domain_candidate == IF normalised_domain # <<>> THEN normalised_domain ELSE source_domain
        is_trusted == TrustInference(ctx, domain_candidate)
        intel0 == Update(existing_intel,
                    [company_name |-> company_name, source_domain |-> source_domain,
                     inferred_domain |-> inferred_domain, company_domain |-> normalised_domain,
                     provider |-> "company_intelligence_agent",
                     trusted_inference |-> is_trusted])
        searching == company_name # ""
        hr_found == IF searching THEN web.hr_contacts ELSE 0
        hr_contacts == IF answer.status = "json" /\ answer.contacts_dropped THEN 0 ELSE hr_found
        scam == searching /\ web.scam_hits
        legitimacy_score ==
            CompanyScoreLegitimacy(normalised_domain # <<>>, is_trusted,
                IF searching THEN web.web_presence ELSE 0, hr_contacts,
                IF searching THEN web.press ELSE 0,
                IF normalised_domain # <<>> THEN web.team_links ELSE 0,
                searching /\ web.filings, searching /\ web.reviews, scam)
        intel1 == Update(intel0,
                    [press_mentions |-> IF searching THEN web.press ELSE 0,
                     hr_contacts |-> hr_contacts,
                     recent_filings |-> searching /\ web.filings,
                     legitimacy_score |-> legitimacy_score])
        intel == IF scam THEN Put(intel1, "scam_reports", "scam reports") ELSE intel1
        f1 == IF normalised_domain = <<>> /\ ~is_trusted
              THEN add_flag(ctx.flags, "intelligence",
                            "Unable to determine official company domain from posting")
              ELSE ctx.flags
        f2 == IF scam
              THEN add_flag(f1, "intelligence", "Potential scam warnings detected via open web search")
              ELSE f1
        f3 == IF answer.status = "json" THEN add_flags(f2, "intelligence", answer.alerts) ELSE f2
        f4 == IF ~is_trusted /\ legitimacy_score < 40
              THEN add_flag(f3, "intelligence",
                            "Company has weak online presence based on open-source checks")
              ELSE f3
        ok(c) == [raised |-> FALSE, error |-> NoException, context |-> c]
    IN  IF domain_candidate = <<>> /\ company_name = ""
        THEN ok([ctx EXCEPT
                !.flags = add_flag(ctx.flags, "intelligence",
                              "No company identifiers available for open-source checks"),
                !.meta = Put(Put(ctx.meta, "company_intel", intel0), "insights",
                             Put(Get(ctx.meta, "insights", EmptyDict), "company_intelligence", intel0))])
        ELSE IF answer.status = "raise"
        THEN [raised |-> TRUE, error |-> GatewayError("company_intelligence"),
              context |-> [ctx EXCEPT !.flags = f2]]
        ELSE ok([ctx EXCEPT
                !.flags = f4,
                !.meta = Put(Put(ctx.meta, "company_intel", intel), "insights",
                             Put(Get(ctx.meta, "insights", EmptyDict), "company_intelligence", intel))])

-----------------------------------------------------------------------------
(* app/agents/source_verification.py *)

\* the platforms whose postings hide recruiter e-mails
EmailHidingPlatforms ==
    { <<"linkedin", "com">>, <<"indeed", "com">>, <<"glassdoor", "com">>,
      <<"oraclecloud", "com">>, <<"oracle", "com">>, <<"workday", "com">> }

\* a domain written out again for a flag message
RECURSIVE Dotted(_)
Dotted(domain) ==
    IF domain = <<>> THEN ""
    ELSE IF Len(domain) = 1 THEN Head(domain)
    ELSE Head(domain) \o "." \o Dotted(Tail(domain))

\* the verification flag one e-mail domain earns, "" when it earns none
EmailDomainFlag(email_domain, domain) ==
    IF email_domain \in GENERIC_EMAIL_DOMAINS
    THEN "Contact email uses generic domain: " \o Dotted(email_domain)
    ELSE IF email_domain[Len(email_domain)] \in SUSPICIOUS_TLDS
    THEN "Email domain uses uncommon TLD: " \o Dotted(email_domain)
    ELSE IF ~IsInfix(email_domain, domain)
    THEN "Contact email domain " \o Dotted(email_domain) \o " differs from source domain "
         \o Dotted(domain)
    ELSE ""

\* add_flag for the flag of each e-mail domain of a set
RECURSIVE EmailFlags(_, _, _)
EmailFlags(flags, email_domains, domain) ==
    IF email_domains = {} THEN flags
    ELSE LET d == CHOOSE x \in email_domains : TRUE
             message == EmailDomainFlag(d, domain)
         IN  EmailFlags(IF message = "" THEN flags ELSE add_flag(flags, "verification", message),
                        email_domains \ {d}, domain)

\* the part of run() before _gather_company_intelligence
VerifySource(ctx) ==
    LET domain == ctx.url.netloc
        email_domains == {e.domain : e \in ctx.contact_emails}
        no_email_expected == Get(ctx.meta, "no_email_expected", FALSE)
        hidden == \E platform \in EmailHidingPlatforms : IsInfix(platform, domain)
        m1 == IF email_domains = {}
              THEN IF no_email_expected
                   THEN PutInsight(ctx.meta, "source_verification", "note",
                                   "No contact email expected for this platform")
                   ELSE IF hidden
                   THEN PutInsight(ctx.meta, "source_verification", "note",
                                   "Platform typically hides recruiter emails")
                   ELSE ctx.meta
              ELSE ctx.meta
        f1 == IF email_domains = {}
              THEN IF ~no_email_expected /\ ~hidden
                   THEN add_flag(ctx.flags, "verification", "No contact email found in posting")
                   ELSE ctx.flags
              ELSE EmailFlags(ctx.flags, email_domains, domain)
        f2 == IF ctx.company \in {"Company not found", "Unknown"}
              THEN add_flag(f1, "verification", "Company name is missing or generic")
              ELSE f1
        f3 == add_flags(f2, "verification",
                  PrefixAll("Job relies on consumer messaging app: ", ctx.contact_channels))
        score == Max(0, 100 - FlagCount(f3, "verification") * 20)
    IN  [ctx EXCEPT !.flags = f3, !.meta = Put(m1, "verification_score", score)]

\* _gather_company_intelligence: [raised, error, context]
_gather_company_intelligence(ctx, web, answer) ==
    LET company_name == IF ctx.company = Null THEN "" ELSE ctx.company
        source_domain == Get(ctx.meta, "source_domain", <<>>)
        inferred_domain == _infer_company_domain(ctx, web)
        normalised_domain == _normalise_domain(IF inferred_domain # <<>> THEN inferred_domain
                                               ELSE source_domain)
        domain_candidate == IF normalised_domain # <<>> THEN normalised_domain
                            ELSE IF inferred_domain # <<>> THEN inferred_domain
                            ELSE source_domain
        is_trusted == TrustInference(ctx, domain_candidate)
        intel0 == [company_name |-> company_name, source_domain |-> source_domain,
                   inferred_domain |-> inferred_domain, company_domain |-> normalised_domain,
                   trusted_inference |-> is_trusted]
        searching == company_name # ""
        web_presence == IF searching THEN web.web_presence ELSE 0
        press == IF normalised_domain # <<>> THEN web.press ELSE 0
        team_links == IF normalised_domain # <<>> THEN web.team_links ELSE 0
        hr_found == IF searching THEN web.hr_contacts ELSE 0
        hr_contacts == IF answer.status = "json" /\ answer.contacts_dropped THEN 0 ELSE hr_found
        has_filings == searching /\ web.filings
        legitimacy_score ==
            SourceScoreLegitimacy(normalised_domain # <<>>, is_trusted, web_presence,
                                  hr_contacts, press, team_links, has_filings)
        intel == Update(intel0,
                    [team_links |-> team_links, press_mentions |-> press,
                     web_presence |-> web_presence,
                     web_presence_status |-> IF ~searching THEN "no_company"
                                             ELSE IF web_presence > 0 THEN "found" ELSE "not_found",
                     hr_contacts |-> hr_contacts, recent_filings |-> has_filings,
                     legitimacy_score |-> legitimacy_score])
        f1 == IF normalised_domain = <<>> /\ ~is_trusted
              THEN add_flag(ctx.flags, "intelligence",
                            "Unable to determine official company domain from posting")
              ELSE ctx.flags
        f2 == IF web_presence = 0 /\ ~is_trusted
              THEN add_flag(f1, "intelligence",
                            "Unable to confirm public web presence for the company")
              ELSE f1
        f3 == IF hr_contacts = 0 /\ ~is_trusted
              THEN add_flag(f2, "intelligence",
                            "No HR or recruiting contacts surfaced in public search")
              ELSE f2
        f4 == IF answer.status = "json" THEN add_flags(f3, "intelligence", answer.alerts) ELSE f3
        f5 == IF ~is_trusted /\ legitimacy_score < 40
              THEN add_flag(f4, "intelligence",
                            "Company has weak online presence based on open-source checks")
              ELSE f4
        ok(c) == [raised |-> FALSE, error |-> NoException, context |-> c]
    IN  IF domain_candidate = <<>> /\ company_name = ""
        THEN ok([ctx EXCEPT
                !.flags = add_flag(ctx.flags, "intelligence",
                              "No company identifiers available for open-source checks"),
                !.meta = Put(Put(ctx.meta, "company_intel", intel0), "insights",
                             Put(Get(ctx.meta, "insights", EmptyDict), "company_intelligence", intel0))])
        ELSE IF answer.status = "raise"
        THEN [raised |-> TRUE, error |-> GatewayError("source_verification"),
              context |-> [ctx EXCEPT !.flags = IF hr_found > 0 THEN f2 ELSE f3]]
        ELSE ok([ctx EXCEPT
                !.flags = f5,
                !.meta = Put(Put(ctx.meta, "company_intel", intel), "insights",
                             Put(Get(ctx.meta, "insights", EmptyDict), "company_intelligence", intel))])

\* SourceVerificationAgent.run: [raised, error, context]
SourceVerificationRun(ctx, web, answer) == _gather_company_intelligence(VerifySource(ctx), web, answer)

-----------------------------------------------------------------------------
(* RiskSynthesisAgent.run as a whole *)

\* one reply of the LLM endpoint: what the transport did and what the body held
Envelope(transport, body) == [transport |-> transport, body |-> body]

Envelopes ==
    { Envelope("ok", "json"), Envelope("ok", "prose"), Envelope("ok", "empty"),
      Envelope("error", "none"), Envelope("undecodable", "none") }

\* the replies that differ for a caller of chat
ChatEnvelopes == Envelopes \ {Envelope("ok", "json")}

ChatOf(l, probe, e) == chat(l, probe, e.transport, e.body = "empty")
StructuredChatOf(l, probe, e) ==
    structured_chat(l, probe, e.transport, e.body = "empty", e.body = "json")

\* a run() that adds ten points of risk when the content score is below 50
RiskSynthesisRunScoreAware(ctx, l, probe, sanity, words, summary) ==
    LET is_trusted == Get(ctx.meta, "trusted_domain", FALSE)
        scraping_incomplete == Get(ctx.meta, "scraping_incomplete", FALSE)
        counter == flag_counter(ctx.flags)
        risk_score == Min(100, risk_score_of(ctx.flags, is_trusted)
                                 + (IF Get(ctx.meta, "content_score", 75) < 50 THEN 10 ELSE 0))
        verdict == _derive_verdict(risk_score, counter, is_trusted, scraping_incomplete)
        llm_ready == llm_available(l, probe)
        l1 == AfterProbe(l, probe)
        called == SanityCheckCalled(l, probe, verdict)
        checked == IF called THEN _llm_sanity_check(l1, FALSE, sanity.transport, words) ELSE Null
        llm_verdict == IF checked = "raise" THEN Null ELSE checked
        outgoing == OutgoingVerdict(verdict, llm_verdict)
        m1 == MetaAfterSanity(ctx.meta, verdict, llm_verdict)
        m2 == MetaAfterSynthesis(m1, risk_score, outgoing, counter)
        status == ChatOf(l1, probe, summary)
        m3 == MetaAfterSummary(m2, status, Narrative)
        trail == [ran |-> TRUE, heuristic_verdict |-> verdict, sanity_called |-> called,
                  llm_ready |-> llm_ready,
                  sanity_reply |-> IF called /\ ChatOf(l1, probe, sanity) = "text" THEN words ELSE {},
                  llm_verdict |-> llm_verdict, risk_score |-> risk_score]
    IN  IF checked = "raise"
        THEN [raised |-> TRUE, error |-> GatewayError("risk_synthesis"), context |-> ctx,
              audit |-> trail]
        ELSE IF status = "raise"
        THEN [raised |-> TRUE, error |-> GatewayError("risk_synthesis"),
              context |-> [ctx EXCEPT !.meta = m2], audit |-> trail]
        ELSE [raised |-> FALSE, error |-> NoException,
              context |-> [ctx EXCEPT !.meta = m3], audit |-> trail]

\* run(): [raised, error, context, audit].  l is the gateway state when run() starts,
\* sanity/words the reply to the sanity-check call, summary the reply to the summary call
RiskSynthesisRun(ctx, l, probe, sanity, words, summary) ==
    LET is_trusted == Get(ctx.meta, "trusted_domain", FALSE)
        scraping_incomplete == Get(ctx.meta, "scraping_incomplete", FALSE)
        counter == flag_counter(ctx.flags)
        risk_score == risk_score_of(ctx.flags, is_trusted)
        verdict == _derive_verdict(risk_score, counter, is_trusted, scraping_incomplete)
        llm_ready == llm_available(l, probe)
        l1 == AfterProbe(l, probe)
        called == SanityCheckCalled(l, probe, verdict)
        checked == IF called THEN _llm_sanity_check(l1, FALSE, sanity.transport, words) ELSE Null
        llm_verdict == IF checked = "raise" THEN Null ELSE checked
        outgoing == OutgoingVerdict(verdict, llm_verdict)
        m1 == MetaAfterSanity(ctx.meta, verdict, llm_verdict)
        m2 == MetaAfterSynthesis(m1, risk_score, outgoing, counter)
        status == ChatOf(l1, probe, summary)
        m3 == MetaAfterSummary(m2, status, Narrative)
        trail == [ran |-> TRUE, heuristic_verdict |-> verdict, sanity_called |-> called,
                  llm_ready |-> llm_ready,
                  sanity_reply |-> IF called /\ ChatOf(l1, probe, sanity) = "text" THEN words ELSE {},
                  llm_verdict |-> llm_verdict, risk_score |-> risk_score]
    IN  IF checked = "raise"
        THEN [raised |-> TRUE, error |-> GatewayError("risk_synthesis"), context |-> ctx,
              audit |-> trail]
        ELSE IF status = "raise"
        THEN [raised |-> TRUE, error |-> GatewayError("risk_synthesis"),
              context |-> [ctx EXCEPT !.meta = m2], audit |-> trail]
        ELSE [raised |-> FALSE, error |-> NoException,
              context |-> [ctx EXCEPT !.meta = m3], audit |-> trail]

-----------------------------------------------------------------------------
(* The requests and the world they run in *)

\* the LLM flag arrays hold at most this many entries
MaxLLMFlags == 2

NoUrl == [netloc |-> <<>>, view |-> FALSE, id |-> <<>>, currentJobId |-> <<>>]

AcmeUrl == [netloc |-> <<"careers", "acme", "com">>, view |-> FALSE, id |-> <<>>,
            currentJobId |-> <<>>]

Urls ==
    { ViewUrl(<<"4", "2", "-", "a">>),
      [netloc |-> LinkedInNetloc, view |-> FALSE, id |-> <<>>, currentJobId |-> <<"4", "2">>],
      AcmeUrl }

Email(local, domain) == [local |-> local, domain |-> domain]

Text(chars, words, phrases, emails, channels, salaries) ==
    [kind |-> "text", chars |-> chars, words |-> words, indicator |-> FALSE,
     phrases |-> phrases, emails |-> emails, channels |-> channels, salaries |-> salaries]

CleanText ==
    Text(1500, 250, {}, {Email("jobs", <<"acme", "com">>)}, <<>>, {"$90,000"})

\* the descriptions that hold scam vocabulary: two and three of the critical
\* financial phrases, and a mix with the extreme scam phrases
ScamTexts ==
    { Text(900, 150, {"send bitcoin", "wire money upfront"},
           {Email("hr.acme", <<"gmail", "com">>)}, <<"telegram">>, {}),
      Text(900, 150, {"send bitcoin", "wire money upfront", "purchase gift card"},
           {Email("jobs", <<"acme", "com">>)}, <<>>, {"$90,000"}),
      Text(900, 150, {"send money", "send gift card", "send bitcoin", "wire money upfront"},
           {Email("hr.acme", <<"gmail", "com">>)}, <<"telegram">>, {}) }

Page(title, company, description, login_form) ==
    [html |-> TRUE, title |-> title, company |-> company, description |-> description,
     login_form |-> login_form]

\* the pages a fetch or a rendering can return
Pages ==
    { Page("Engineer", "Acme Corp", CleanText, FALSE),
      Page("Engineer", "Google", Text(100, 16, {}, {}, <<>>, {}), FALSE),
      Page("Engineer", "Google", Text(600, 100, {}, {}, <<>>, {}), FALSE),
      Page("Engineer", "Acme Corp", Text(99, 16, {}, {}, <<>>, {}), FALSE),
      Page(Null, Null, NoDescription, FALSE),
      Page("Engineer", "Acme Corp", CleanText, TRUE),
      Page("Sign in", Null, [Text(120, 20, {}, {}, <<>>, {}) EXCEPT !.indicator = TRUE], FALSE) }
    \cup { Page("Agent", "Acme Corp", description, FALSE) : description \in ScamTexts }

\* what a rendering attempt returns: None, or a page
RenderedPages ==
    { NoPage,
      Page("Engineer", "Acme Corp", CleanText, FALSE),
      Page("Engineer", "Acme Corp", Text(99, 16, {}, {}, <<>>, {}), FALSE) }

\* a slice that keeps one entry more
PrefixInclusive(list, k) == SubSeq(list, 1, Min(k + 1, Len(list)))

\* list[:k], the first k entries of a list
Prefix(list, k) == SubSeq(list, 1, Min(k, Len(list)))

LLMRiskFlags == <<"Guaranteed income with no work described", "Pressure to act now", "">>
LLMPiiFlags == <<"bank account number", "SSN before interview", "">>

Feedback(form, content_score, financial_score, risk_flags, pii_flags) ==
    [form |-> form, content_score |-> content_score, financial_score |-> financial_score,
     risk_flags |-> risk_flags, pii_flags |-> pii_flags]

NoFeedback == Feedback("list", Score("absent", 0), Score("absent", 0), <<>>, <<>>)

\* the JSON values the content review can come back as
ContentFeedbacks ==
    { NoFeedback,
      Feedback("dict", Score("null", 0), Score("absent", 0), <<>>, <<>>),
      Feedback("dict", Score("word", 0), Score("number", 90), <<>>, <<>>),
      Feedback("dict", Score("number", 80), Score("null", 0), <<>>, <<>>),
      Feedback("dict", Score("absent", 0), Score("absent", 0), <<>>, <<>>) }
    \cup { Feedback("dict", Score("number", 30), Score("number", 130 - 50 * k),
                    Prefix(LLMRiskFlags, k), Prefix(LLMPiiFlags, k)) : k \in 1..MaxLLMFlags }

\* the JSON values the information extraction can come back as
Payloads ==
    { NoPayload,
      [present |-> TRUE, url |-> [netloc |-> <<>>], job_title |-> "Engineer",
       company |-> "Acme Corp", verified_domain |-> <<"acme", "com">>] }

\* the states of the open web
WebWorlds ==
    { NoWeb,
      [official_site |-> <<"www", "acme", "com">>, web_presence |-> 4, hr_contacts |-> 2,
       press |-> 2, team_links |-> 1, filings |-> TRUE, reviews |-> TRUE, scam_hits |-> FALSE],
      [official_site |-> <<"acme", "xyz">>, web_presence |-> 1, hr_contacts |-> 0,
       press |-> 0, team_links |-> 0, filings |-> FALSE, reviews |-> FALSE, scam_hits |-> TRUE] }

\* the JSON values a company assessment can come back as
CompanyAlerts == { <<>>, <<"Domain registered last week">> }

-----------------------------------------------------------------------------
(* ParentOrchestrator.process_job and the nodes of the compiled graph *)

\* the edges of build_agent_graph(include_scrape=True)
NextNode ==
    [data_acquisition |-> "content_analysis",
     content_analysis |-> "information_extraction",
     information_extraction |-> "company_intelligence",
     company_intelligence |-> "source_verification",
     source_verification |-> "risk_synthesis",
     risk_synthesis |-> "END"]

AgentError(msg) == [type |-> "AgentError", origin |-> "data_acquisition", msg |-> msg]

\* an except branch that reported a fixed text instead of str(exc)
ErrorResultGeneric(exc) == [verdict |-> "error", reason |-> "Pipeline failed"]

\* the dict process_job returns from its except branch
ErrorResult(exc) == [verdict |-> "error", reason |-> exc.msg]

_generate_recommendation(ctx) ==
    LET verdict == Get(ctx.meta, "verdict", "unknown")
    IN  IF verdict = "incomplete_data" THEN "Unable to analyze fully"
        ELSE IF verdict = "fake" THEN "HIGH RISK"
        ELSE IF verdict = "suspicious" THEN "CAUTION"
        ELSE IF Get(ctx.meta, "trusted_domain", FALSE) /\ Get(ctx.meta, "scraping_incomplete", FALSE)
        THEN "Trusted domain but incomplete scraping"
        ELSE "No major red flags detected"

\* the dict process_job returns after the graph ran to END
VerdictResult(ctx) ==
    [verdict |-> Get(ctx.meta, "verdict", "unknown"),
     risk_score |-> Get(ctx.meta, "risk_score", 0),
     confidence |-> Get(ctx.meta, "confidence", 0),
     flags |-> ctx.flags,
     summary |-> ctx.meta,
     source |-> [url |-> ctx.url, title |-> ctx.title, company |-> ctx.company],
     recommendation |-> _generate_recommendation(ctx)]

\* a node finished: on to the next node, or the exception starts to propagate
Advance(node, raised, error) ==
    /\ pc' = IF raised THEN "raising" ELSE NextNode[node]
    /\ exception' = IF raised THEN error ELSE exception
    /\ executed' = Append(executed, node)

Init ==
    /\ pc = "idle"
    /\ context = JobContext(NoUrl)
    /\ executed = <<>>
    /\ exception = NoException
    /\ result = EmptyDict
    /\ llm \in LlmConfigs
    /\ open_web = NoWeb
    /\ audit = NoAudit

\* a caller invokes process_job(url); the previous request, if any, has ended
process_job ==
    /\ pc \in {"idle", "returned", "escaped"}
    /\ \E url \in Urls : context' = JobContext(url)
    /\ pc' = "data_acquisition"
    /\ executed' = <<>>
    /\ exception' = NoException
    /\ result' = EmptyDict
    /\ audit' = NoAudit
    /\ UNCHANGED <<llm, open_web>>

\* a rendering is attempted only for a short description on a trusted domain
RenderingsOf(url, page) ==
    IF IsTrustedDomain(WorkingUrl(url).netloc)
       /\ (page.description.kind # "text" \/ page.description.chars < 100)
    THEN RenderedPages ELSE {NoPage}

_data_node ==
    /\ pc = "data_acquisition"
    /\ \E fetched \in BOOLEAN, page \in Pages :
        \E playwright \in BOOLEAN, selenium \in BOOLEAN,
           pw_page \in RenderingsOf(context.url, page), sel_page \in RenderingsOf(context.url, page) :
          \E r \in {DataAcquisitionRun(context, page, TRUE, playwright, selenium, pw_page, sel_page)} :
              IF ~fetched
              THEN /\ context' = DataAcquisitionFailed(context)
                   /\ audit' = [audit EXCEPT !.fetch = "error"]
                   /\ Advance("data_acquisition", TRUE, AgentError(FetchErrorMessage))
              ELSE /\ context' = r.context
                   /\ audit' = [audit EXCEPT !.fetch = "ok",
                                             !.render_failed = r.render_failed,
                                             !.paywall = r.paywall]
                   /\ Advance("data_acquisition", r.raised, AgentError(r.msg))
    /\ UNCHANGED <<result, llm, open_web>>

_content_node ==
    /\ pc = "content_analysis"
    /\ \E probe \in Probes(llm), e \in Envelopes :
        \E feedback \in (IF e.body = "json" THEN ContentFeedbacks ELSE {NoFeedback}) :
          LET calls == ~Get(context.meta, "scraping_incomplete", FALSE)
                       /\ context.trimmed_description.words > 0
              l1 == IF calls THEN AfterProbe(llm, probe) ELSE llm
              status == IF calls /\ llm_available(llm, probe)
                        THEN StructuredChatOf(l1, probe, e) ELSE "none"
              r == ContentAnalysisRun(context, status, feedback)
          IN  /\ llm' = l1
              /\ context' = r.context
              /\ Advance("content_analysis", r.raised, r.error)
    /\ UNCHANGED <<result, open_web, audit>>

_information_node ==
    /\ pc = "information_extraction"
    /\ \E probe \in Probes(llm), e \in Envelopes :
        \E payload \in (IF e.body = "json" THEN Payloads ELSE {NoPayload}) :
          LET l1 == AfterProbe(llm, probe)
              status == IF llm_available(llm, probe) THEN StructuredChatOf(l1, probe, e)
                        ELSE "none"
          IN  /\ llm' = l1
              /\ context' = IF status = "raise" THEN context
                            ELSE InformationExtractionRun(context,
                                     IF status = "json" THEN payload ELSE NoPayload)
              /\ Advance("information_extraction", status = "raise",
                         GatewayError("information_extraction"))
    /\ UNCHANGED <<result, open_web, audit>>

\* the answers of the LLM to one OSINT pass
CompanyAnswers(l, probe) ==
    IF llm_available(l, probe)
    THEN { [status |-> "json", contacts_dropped |-> dropped, alerts |-> alerts] :
              dropped \in BOOLEAN, alerts \in CompanyAlerts }
         \cup { [NoCompanyAnswer EXCEPT !.status = StructuredChatOf(AfterProbe(l, probe), probe, e)] :
                   e \in Envelopes \ {Envelope("ok", "json")} }
    ELSE {NoCompanyAnswer}

_company_node ==
    /\ pc = "company_intelligence"
    /\ \E probe \in Probes(llm), world \in WebWorlds :
          \E answer \in CompanyAnswers(llm, probe) :
              LET r == CompanyIntelligenceRun(context, world, answer)
              IN  /\ llm' = AfterProbe(llm, probe)
                  /\ open_web' = world
                  /\ context' = r.context
                  /\ Advance("company_intelligence", r.raised, r.error)
    /\ UNCHANGED <<result, audit>>

_verification_node ==
    /\ pc = "source_verification"
    /\ \E probe \in Probes(llm) :
          \E answer \in CompanyAnswers(llm, probe) :
              LET r == SourceVerificationRun(context, open_web, answer)
              IN  /\ llm' = AfterProbe(llm, probe)
                  /\ context' = r.context
                  /\ Advance("source_verification", r.raised, r.error)
    /\ UNCHANGED <<result, open_web, audit>>

_synthesis_node ==
    /\ pc = "risk_synthesis"
    /\ \E probe \in Probes(llm), sanity \in ChatEnvelopes, summary \in ChatEnvelopes :
        \E words \in (IF sanity = Envelope("ok", "prose") THEN SanityReplies ELSE {{}}) :
          LET r == RiskSynthesisRun(context, llm, probe, sanity, words, summary)
          IN  /\ llm' = AfterProbe(llm, probe)
              /\ context' = r.context
              /\ audit' = Update(audit, r.audit)
              /\ Advance("risk_synthesis", r.raised, r.error)
    /\ UNCHANGED <<result, open_web>>

\* the exception reaches process_job: AgentError is caught and reported, any other
\* exception leaves process_job
process_job_except ==
    /\ pc = "raising"
    /\ IF exception.type = "AgentError"
       THEN pc' = "returned" /\ result' = ErrorResult(exception)
       ELSE pc' = "escaped" /\ result' = result
    /\ UNCHANGED <<context, executed, exception, llm, open_web, audit>>

\* graph.invoke returned
process_job_return ==
    /\ pc = "END"
    /\ pc' = "returned"
    /\ result' = VerdictResult(context)
    /\ UNCHANGED <<context, executed, exception, llm, open_web, audit>>

Next ==
    \/ process_job
    \/ _data_node
    \/ _content_node
    \/ _information_node
    \/ _company_node
    \/ _verification_node
    \/ _synthesis_node
    \/ process_job_except
    \/ process_job_return

Spec == Init /\ [][Next]_vars

-----------------------------------------------------------------------------
(* Properties *)

Verdicts == {"legit", "suspicious", "fake", "incomplete_data", "error"}

AllNodes ==
    <<"data_acquisition", "content_analysis", "information_extraction",
      "company_intelligence", "source_verification", "risk_synthesis">>

\* process_job has returned a dict to its caller
Returned == pc = "returned"

\* risk synthesis ran to its end for the current request
Synthesised == audit.ran /\ pc \in {"END", "returned"}

ReturnedVerdict == Get(result, "verdict", Null)
OutgoingMetaVerdict == Get(context.meta, "verdict", Null)
Financial == FlagCount(context.flags, "financial")
ContentFlags == FlagCount(context.flags, "content")
Untrusted == ~Get(context.meta, "trusted_domain", FALSE)

\* the ledger holds nothing outside the acquisition category
OnlyAcquisitionFlags ==
    \A c \in {"content", "verification", "financial", "intelligence"} :
        FlagCount(context.flags, c) = 0

\* the incomplete_data rule applies to the context
IncompleteRule ==
    /\ Get(context.meta, "trusted_domain", FALSE)
    /\ Get(context.meta, "scraping_incomplete", FALSE)
    /\ OnlyAcquisitionFlags

\* the heuristic verdict stored for audit, Null when there is none
StoredHeuristic ==
    Get(Get(Get(context.meta, "insights", EmptyDict), "risk_synthesis", EmptyDict),
        "heuristic_verdict", Null)

\* C1: process_job returns verdict `error` exactly when data acquisition raised
\* AgentError (a failed fetch or a paywall); then no later node has run, and the
\* reason is the text of the exception, for a paywall the remediation message.
C1_ErrorExactlyOnAgentError ==
    Returned =>
        /\ (ReturnedVerdict = "error") <=> (exception.type = "AgentError")
        /\ (exception.type = "AgentError") <=> (audit.fetch = "error" \/ audit.paywall)
        /\ ReturnedVerdict = "error" =>
              /\ executed = <<"data_acquisition">>
              /\ exception.origin = "data_acquisition"
              /\ result = [verdict |-> "error", reason |-> exception.msg]
              /\ audit.paywall => result["reason"] = PaywallMessage
              /\ audit.fetch = "error" => result["reason"] = FetchErrorMessage

C1_Witness == Returned /\ ReturnedVerdict = "error" /\ audit.paywall

\* C2: whatever the collaborators do, process_job returns a dict whose verdict is
\* one of legit, suspicious, fake, incomplete_data, error, and no exception leaves
\* process_job.
C2_NoExceptionEscapes ==
    /\ pc # "escaped"
    /\ Returned => ReturnedVerdict \in Verdicts

\* C3: when risk synthesis ran on a trusted, scraping-incomplete context with no
\* flag outside the acquisition category, the outgoing verdict is incomplete_data,
\* however many acquisition flags there are and whether or not the LLM is available.
C3_IncompleteData ==
    (Synthesised /\ IncompleteRule) => OutgoingMetaVerdict = "incomplete_data"

C3_Witness ==
    /\ Returned /\ audit.ran /\ IncompleteRule /\ audit.llm_ready
    /\ FlagCount(context.flags, "acquisition") >= 2
    /\ ReturnedVerdict = "incomplete_data"

\* C4: outside the incomplete_data rule the heuristic verdict is the first match of:
\* fake when there are at least 3 financial flags or the risk score is at least 85;
\* suspicious when the risk score is at least 60 or there are at least 2 financial
\* and at least 2 content flags; else legit.  So 3 financial flags give fake, and 2
\* financial flags with a risk score below 85 give legit or suspicious.
C4_FirstMatch ==
    (audit.ran /\ ~IncompleteRule) =>
        LET fake == Financial >= 3 \/ audit.risk_score >= 85
            suspicious == audit.risk_score >= 60 \/ (Financial >= 2 /\ ContentFlags >= 2)
        IN  /\ fake => audit.heuristic_verdict = "fake"
            /\ (~fake /\ suspicious) => audit.heuristic_verdict = "suspicious"
            /\ (~fake /\ ~suspicious) => audit.heuristic_verdict = "legit"
            /\ Financial = 3 => audit.heuristic_verdict = "fake"
            /\ (Financial = 2 /\ audit.risk_score < 85)
                  => audit.heuristic_verdict \in {"legit", "suspicious"}

C4_Witness ==
    /\ audit.ran /\ ~IncompleteRule
    /\ Financial = 3 /\ audit.risk_score < 85 /\ audit.heuristic_verdict = "fake"

\* C5: for a posting on an untrusted domain whose description holds "send bitcoin"
\* and "wire money upfront", at least 2 financial flags are recorded and the
\* heuristic verdict of risk synthesis is fake.
C5_BitcoinWireIsFake ==
    (audit.ran /\ Untrusted
     /\ {"send bitcoin", "wire money upfront"} \subseteq context.description.phrases)
        => (Financial >= 2 /\ audit.heuristic_verdict = "fake")

\* C6: the outgoing verdict differs from the heuristic one only when the heuristic
\* verdict is fake or suspicious, the LLM is available and the sanity reply names
\* another of the three verdicts; legit and incomplete_data never trigger the
\* sanity-check call; a missing reply or one naming no verdict keeps the heuristic
\* verdict.
C6_OverrideOnlyBySanityCheck ==
    Synthesised =>
        /\ OutgoingMetaVerdict # audit.heuristic_verdict =>
              /\ audit.heuristic_verdict \in {"fake", "suspicious"}
              /\ audit.llm_ready
              /\ audit.sanity_called
              /\ OutgoingMetaVerdict \in audit.sanity_reply \cap {"fake", "suspicious", "legit"}
        /\ audit.heuristic_verdict \in {"legit", "incomplete_data"} => ~audit.sanity_called
        /\ audit.sanity_reply \cap {"fake", "suspicious", "legit"} = {}
              => OutgoingMetaVerdict = audit.heuristic_verdict

C6_Witness ==
    /\ Returned /\ audit.ran
    /\ audit.heuristic_verdict = "fake" /\ ReturnedVerdict = "legit"

\* C7: when the outgoing verdict differs from the heuristic verdict, the heuristic
\* verdict is stored under insights.risk_synthesis.heuristic_verdict and meta.verdict
\* holds the LLM's verdict; when they agree no heuristic_verdict entry exists.
C7_HeuristicVerdictAudited ==
    Synthesised =>
        /\ OutgoingMetaVerdict # audit.heuristic_verdict =>
              /\ StoredHeuristic = audit.heuristic_verdict
              /\ OutgoingMetaVerdict = audit.llm_verdict
        /\ OutgoingMetaVerdict = audit.heuristic_verdict => StoredHeuristic = Null

C7_Witness ==
    /\ Returned /\ audit.ran
    /\ audit.heuristic_verdict = "suspicious" /\ ReturnedVerdict = "fake"
    /\ StoredHeuristic = "suspicious"

\* the stage of the documented control flow a graph node belongs to
StageOf(node) ==
    IF node \in {"company_intelligence", "source_verification"} THEN "verification" ELSE node

\* the stages a run went through: the nodes' stages, a stage's consecutive nodes once
RECURSIVE StagesOf(_)
StagesOf(nodes) ==
    IF nodes = <<>> THEN <<>>
    ELSE IF Len(nodes) >= 2 /\ StageOf(nodes[1]) = StageOf(nodes[2]) THEN StagesOf(Tail(nodes))
    ELSE <<StageOf(Head(nodes))>> \o StagesOf(Tail(nodes))

\* C8: in a run that data acquisition does not abort, the stages data acquisition,
\* content analysis, information extraction, company/source verification, financial
\* risk and risk synthesis run once each in that order; financial risk has run when
\* risk synthesis computes the verdict.
C8_SixStagesInOrder ==
    /\ (Returned /\ ReturnedVerdict # "error") =>
          StagesOf(executed) = <<"data_acquisition", "content_analysis", "information_extraction",
                                 "verification", "financial_risk", "risk_synthesis">>
    /\ audit.ran => Contains(executed, "financial_risk")

\* C9 as stated: only paywall detection aborts the pipeline; after a failed page
\* fetch the remaining stages run.
C9_OnlyPaywallAborts ==
    /\ exception.type = "AgentError" => audit.paywall
    /\ (Returned /\ audit.fetch = "error") => ReturnedVerdict # "error"

\* C9: data acquisition aborts the pipeline in two cases, paywall detection and a
\* failed plain fetch; a rendering attempt that fails or times out aborts nothing:
\* a description that stays short is recorded as an acquisition flag and an
\* incomplete scrape, and the remaining nodes run.
C9_FetchOrPaywallAborts ==
    /\ (exception.type = "AgentError") <=> (audit.fetch = "error" \/ audit.paywall)
    /\ (audit.fetch = "ok" /\ ~audit.paywall /\ audit.render_failed) =>
          /\ pc # "data_acquisition"
          /\ Contains(executed, "data_acquisition")
          /\ Get(context.meta, "insights", EmptyDict)["scraping"]["status"] = "incomplete"
             => FlagCount(context.flags, "acquisition") >= 1
    /\ (Returned /\ audit.fetch = "ok" /\ ~audit.paywall) => executed = AllNodes

C9_Witness ==
    /\ Returned /\ audit.render_failed /\ ReturnedVerdict \in Verdicts \ {"error"}
    /\ Get(context.meta, "scraping_incomplete", FALSE)
    /\ FlagCount(context.flags, "acquisition") >= 1

\* the states the gateway module can be in
LlmStates ==
    { [c EXCEPT !.ollama_available = a] : c \in LlmConfigs, a \in {"None", "True", "False"} }

\* C10: chat and structured_chat never raise, whatever the provider and whatever
\* fails: they return nothing on a transport or decoding failure, and structured_chat
\* returns nothing for text that is not JSON; so no exception of a request starts in
\* the gateway.
C10_GatewayNeverRaises ==
    /\ \A l \in LlmStates, probe \in BOOLEAN, e \in Envelopes :
          /\ ChatOf(l, probe, e) # "raise"
          /\ StructuredChatOf(l, probe, e) # "raise"
          /\ e.transport # "ok" => ChatOf(l, probe, e) = "none"
          /\ e.body # "json" => StructuredChatOf(l, probe, e) # "json"
    /\ exception.type # "JSONDecodeError"

-----------------------------------------------------------------------------
(* JobContext.add_flag on its own: a caller that keeps adding flags *)

\* the state of a caller that exercises one operation outside a request
CallerInit(position, ctx) ==
    /\ pc = position
    /\ context = ctx
    /\ executed = <<>>
    /\ exception = NoException
    /\ result = EmptyDict
    /\ llm = [PROVIDER |-> "mistral", mistral_ready |-> FALSE, ollama_available |-> "None"]
    /\ open_web = NoWeb
    /\ audit = NoAudit

\* the categories and messages the caller uses; "other" is no key of a fresh ledger
FlagCategories == {"acquisition", "financial", "other"}
FlagMessages == {"No contact email found", "Requests payment"}

\* context.add_flag(category, message); audit keeps the call and the ledger before it
add_flag_call ==
    /\ pc = "add_flag"
    /\ \E category \in FlagCategories, message \in FlagMessages :
          /\ context' = [context EXCEPT !.flags = add_flag(context.flags, category, message)]
          /\ audit' = [category |-> category, message |-> message, before |-> context.flags]
    /\ UNCHANGED <<pc, executed, exception, result, llm, open_web>>

SpecAddFlag == CallerInit("add_flag", JobContext(NoUrl)) /\ [][add_flag_call]_vars

NoDuplicates(seq) == \A i, j \in 1..Len(seq) : seq[i] = seq[j] => i = j

\* C11: after any sequence of add_flag calls every category's list is free of
\* duplicates; a call appends the message exactly when it is not yet in the
\* category's list, and a call with a message already there leaves the whole ledger
\* as it was.
C11_AddFlagIdempotent ==
    /\ \A c \in DOMAIN context.flags : NoDuplicates(context.flags[c])
    /\ (pc = "add_flag" /\ audit # NoAudit) =>
          LET bucket == Get(audit.before, audit.category, <<>>)
          IN  /\ Contains(bucket, audit.message) => context.flags = audit.before
              /\ ~Contains(bucket, audit.message) =>
                    /\ context.flags[audit.category] = Append(bucket, audit.message)
                    /\ \A c \in DOMAIN audit.before \ {audit.category} :
                          context.flags[c] = audit.before[c]

\* a message was added a second time to a category that holds two messages
C11_Witness ==
    /\ pc = "add_flag" /\ audit # NoAudit
    /\ Contains(Get(audit.before, audit.category, <<>>), audit.message)
    /\ Len(context.flags[audit.category]) = 2

-----------------------------------------------------------------------------
(* RiskSynthesisAgent.run on its own: contexts with given numbers of flags, scored
   again after each further financial flag *)

\* the ledgers start with at most MaxOtherFlags flags in each category but financial,
\* and grow to MaxFinancialFlags financial flags
MaxOtherFlags == 2
MaxFinancialFlags == 6

FlagList(n) == [i \in 1..n |-> "flag " \o ToString(i)]

\* contexts as the earlier stages may leave them: flags, and the trusted_domain mark
ScoredContexts ==
    { [JobContext(NoUrl) EXCEPT
          !.flags = [c \in DOMAIN @ |-> IF c = "financial" THEN <<>> ELSE FlagList(counts[c])],
          !.meta = IF is_trusted THEN Put(EmptyDict, "trusted_domain", TRUE) ELSE EmptyDict] :
        counts \in [{"acquisition", "content", "verification", "intelligence"} -> 0..MaxOtherFlags],
        is_trusted \in BOOLEAN }

\* RiskSynthesisAgent().run(context) while the LLM gateway is unavailable
run_risk_synthesis ==
    /\ pc = "score"
    /\ \E r \in {RiskSynthesisRun(context, llm, FALSE, Envelope("error", "none"), {},
                                  Envelope("error", "none"))} :
          /\ context' = r.context
          /\ audit' = Update(audit, r.audit)
    /\ pc' = "scored"
    /\ UNCHANGED <<executed, exception, result, llm, open_web>>

\* a further financial flag is added; audit keeps the score there was without it
one_more_financial_flag ==
    /\ pc = "scored"
    /\ FlagCount(context.flags, "financial") < MaxFinancialFlags
    /\ context' = [context EXCEPT !.flags =
                      add_flag(@, "financial",
                               "flag " \o ToString(FlagCount(context.flags, "financial") + 1))]
    /\ audit' = Update(audit, [previous_score |-> context.meta["risk_score"]])
    /\ pc' = "score"
    /\ UNCHANGED <<executed, exception, result, llm, open_web>>

SpecRiskScore ==
    /\ \E ctx \in ScoredContexts : CallerInit("score", ctx)
    /\ [][run_risk_synthesis \/ one_more_financial_flag]_vars

\* C12: whatever the flag counts of the five categories and the trusted mark, the
\* risk score computed with one more financial flag is at least the risk score
\* computed without it, rounding and the cap at 100 included.
C12_FinancialFlagMonotone ==
    (pc = "scored" /\ Has(audit, "previous_score")) =>
        context.meta["risk_score"] >= audit.previous_score

\* the further financial flag took the score to the cap
C12_Witness ==
    /\ pc = "scored" /\ Has(audit, "previous_score")
    /\ audit.previous_score < 100 /\ context.meta["risk_score"] = 100
    /\ FlagCount(context.flags, "financial") < MaxFinancialFlags

-----------------------------------------------------------------------------
(* The scores of a returned result *)

\* the weighted flag total of the returned ledger in hundredths: 15 * weight per
\* flag, with weight 0.1 (0.05 on a trusted domain), 0.8, 0.9, 1.4 and 0.6
ReturnedWeightedTotal ==
    LET n(c) == Len(result.flags[c])
    IN  (IF Get(result.summary, "trusted_domain", FALSE) THEN 75 ELSE 150) * n("acquisition")
        + 1200 * n("content") + 1350 * n("verification") + 2100 * n("financial")
        + 900 * n("intelligence")

\* C13: in every result that is no error the risk score is an integer in 0..100, the
\* weighted flag total rounded to a nearest integer and capped at 100, and the
\* confidence is an integer in 0..100 equal to 100 minus the risk score.
C13_ScoreAndConfidence ==
    (Returned /\ ReturnedVerdict # "error") =>
        /\ result.risk_score \in 0..100
        /\ result.risk_score < 100 =>
              /\ 100 * result.risk_score - ReturnedWeightedTotal <= 50
              /\ ReturnedWeightedTotal - 100 * result.risk_score <= 50
        /\ result.risk_score = 100 => ReturnedWeightedTotal >= 9950
        /\ result.confidence \in 0..100
        /\ result.confidence = 100 - result.risk_score

\* a result whose weighted total is no whole number, so that rounding decided the score
C13_Witness ==
    /\ Returned /\ ReturnedVerdict # "error"
    /\ ReturnedWeightedTotal % 100 = 75
    /\ result.risk_score >= 1 /\ result.confidence = 100 - result.risk_score

-----------------------------------------------------------------------------
(* ContentAnalysisAgent.run on its own: the same context analysed without the LLM
   and with an LLM answer *)

\* the contexts data acquisition hands on when it does not raise
AcquiredContexts ==
    { r.context : r \in { x \in { DataAcquisitionRun(JobContext(url), page, TRUE, FALSE, FALSE,
                                                     NoPage, NoPage) :
                                     url \in Urls, page \in Pages } : ~x.raised } }

\* ContentAnalysisAgent().run(context) twice on copies of one context: once with the
\* gateway unavailable, once with the LLM answering `feedback`; audit keeps both outcomes
content_analysis_both_ways ==
    /\ pc = "content_paths"
    /\ \E feedback \in ContentFeedbacks :
        \E degraded \in {ContentAnalysisRun(context, "none", NoFeedback)},
           assisted \in {ContentAnalysisRun(context, "json", feedback)} :
          audit' = [degraded_flags |-> degraded.context.flags,
                    assisted_flags |-> assisted.context.flags,
                    assisted_raised |-> assisted.raised,
                    feedback |-> feedback]
    /\ pc' = "compared"
    /\ UNCHANGED <<context, executed, exception, result, llm, open_web>>

SpecContentPaths ==
    /\ \E ctx \in AcquiredContexts : CallerInit("content_paths", ctx)
    /\ [][content_analysis_both_ways]_vars

\* C14: for the same description every flag the fallback path adds is also added by
\* the path that processes an LLM answer, whatever the answer.
C14_FallbackWithinAssisted ==
    (pc = "compared" /\ ~audit.assisted_raised) =>
        \A c \in DOMAIN audit.degraded_flags :
            \A i \in 1..Len(audit.degraded_flags[c]) :
                Contains(audit.assisted_flags[c], audit.degraded_flags[c][i])

-----------------------------------------------------------------------------
(* End-to-end scenarios on a trusted domain *)

\* the request's URL lies on a trusted domain
OnTrustedSite == \E trusted \in TRUSTED_DOMAINS : IsInfix(trusted, context.url.netloc)

\* C15: on a trusted domain, when the description the fetch yields is shorter than
\* 100 characters, the page shows no paywall and no stage raises a flag outside the
\* acquisition category, the pipeline ends with scraping_incomplete set in the
\* metadata and with verdict incomplete_data.
C15_ShortOnTrustedIsIncomplete ==
    (Returned /\ ReturnedVerdict # "error" /\ OnTrustedSite
     /\ DescLength(context.description) < 100 /\ OnlyAcquisitionFlags) =>
        /\ Get(result.summary, "scraping_incomplete", FALSE)
        /\ ReturnedVerdict = "incomplete_data"

C15_Witness ==
    /\ Returned /\ OnTrustedSite /\ OnlyAcquisitionFlags
    /\ context.description.kind = "text" /\ context.description.chars \in 1..99
    /\ ~audit.render_failed
    /\ Get(result.summary, "scraping_incomplete", FALSE)
    /\ ReturnedVerdict = "incomplete_data"

\* the request ran on a trusted domain, and the description that was fetched holds at
\* least 500 characters and no salary, no e-mail and no scam phrase
LongCleanOnTrustedSite ==
    /\ Returned /\ ReturnedVerdict # "error" /\ OnTrustedSite
    /\ context.description.kind = "text" /\ context.description.chars >= 500
    /\ context.description.salaries = {} /\ context.description.emails = {}
    /\ context.description.phrases = {}

-----------------------------------------------------------------------------
(* Two process_job calls served at the same time on one orchestrator *)

\* the callers whose requests overlap
Callers == {"first", "second"}

PortalUrl == [AcmeUrl EXCEPT !.netloc = <<"portal", "acme", "com">>]

\* the URLs they ask about, and the page each URL serves
RequestedUrls == {AcmeUrl, ViewUrl(<<"4", "2">>), PortalUrl}

ServedPage(url) ==
    IF url = AcmeUrl
    THEN Page("Agent", "Acme Corp",
              Text(900, 150, {"send bitcoin", "wire money upfront"},
                   {Email("hr.acme", <<"gmail", "com">>)}, <<"telegram">>, {}), FALSE)
    ELSE IF url = PortalUrl THEN Page("Engineer", "Acme Corp", CleanText, TRUE)
    ELSE Page("Engineer", "Google", Text(99, 16, {}, {}, <<>>, {}), FALSE)

\* a mutable default that is one object for all instances of the class
SharedDefault(objects, field) == IF field = "meta" THEN 1 ELSE 2

\* field(default_factory=...): the factory is called for every instance and
\* returns a new object; objects maps the identity of each dict to its value
default_factory(objects, field) == Cardinality(DOMAIN objects) + 1

\* JobContext(url=url), its meta and flags held by reference
NewJobContext(objects, url) ==
    LET meta == default_factory(objects, "meta")
        o1 == IF meta \in DOMAIN objects THEN objects ELSE Put(objects, meta, EmptyDict)
        flags == default_factory(o1, "flags")
        o2 == IF flags \in DOMAIN o1 THEN o1 ELSE Put(o1, flags, JobContext(url).flags)
    IN  [objects |-> o2, context |-> [JobContext(url) EXCEPT !.meta = meta, !.flags = flags]]

\* the JobContext as an agent reads it through the references
Deref(objects, ctx) == [ctx EXCEPT !.meta = objects[ctx.meta], !.flags = objects[ctx.flags]]

\* the writes of an agent to context.meta and context.flags land in the objects
Store(objects, ctx, written) == Put(Put(objects, ctx.meta, written.meta), ctx.flags, written.flags)

\* agent = <Agent>(); context = agent.run(context), with the LLM unavailable:
\* [raised, error, context]
NodeRun(node, ctx) ==
    IF node = "data_acquisition"
    THEN LET r == DataAcquisitionRun(ctx, ServedPage(ctx.url), TRUE, FALSE, FALSE, NoPage, NoPage)
         IN  [raised |-> r.raised, error |-> AgentError(r.msg), context |-> r.context]
    ELSE IF node = "content_analysis" THEN ContentAnalysisRun(ctx, "none", NoFeedback)
    ELSE IF node = "information_extraction"
    THEN [raised |-> FALSE, error |-> NoException,
          context |-> InformationExtractionRun(ctx, NoPayload)]
    ELSE IF node = "company_intelligence" THEN CompanyIntelligenceRun(ctx, NoWeb, NoCompanyAnswer)
    ELSE IF node = "source_verification" THEN SourceVerificationRun(ctx, NoWeb, NoCompanyAnswer)
    ELSE LET r == RiskSynthesisRun(ctx, llm, FALSE, Envelope("error", "none"), {},
                                   Envelope("error", "none"))
         IN  [raised |-> r.raised, error |-> r.error, context |-> r.context]

\* process_job(url) when no other request runs
RECURSIVE InvokeFrom(_, _)
InvokeFrom(node, ctx) ==
    IF node = "END" THEN VerdictResult(ctx)
    ELSE LET r == NodeRun(node, ctx)
         IN  IF r.raised THEN ErrorResult(r.error) ELSE InvokeFrom(NextNode[node], r.context)

ProcessJobAlone(url) == InvokeFrom("data_acquisition", JobContext(url))

ConcurrentInit ==
    /\ pc = [caller \in Callers |-> "idle"]
    /\ context = [caller \in Callers |-> JobContext(NoUrl)]
    /\ executed = [caller \in Callers |-> <<>>]
    /\ exception = [caller \in Callers |-> NoException]
    /\ result = [caller \in Callers |-> EmptyDict]
    /\ llm = [PROVIDER |-> "mistral", mistral_ready |-> FALSE, ollama_available |-> "None"]
    /\ open_web = NoWeb
    /\ audit = EmptyDict

\* context = JobContext(url=url); self.graph.invoke({"context": context})
concurrent_process_job(caller) ==
    /\ pc[caller] = "idle"
    /\ \E url \in RequestedUrls :
        \E new \in {NewJobContext(audit, url)} :
            /\ audit' = new.objects
            /\ context' = [context EXCEPT ![caller] = new.context]
    /\ pc' = [pc EXCEPT ![caller] = "data_acquisition"]
    /\ UNCHANGED <<executed, exception, result, llm, open_web>>

\* one node of the compiled graph runs for the caller's request
concurrent_node(caller) ==
    /\ pc[caller] \in DOMAIN NextNode
    /\ \E r \in {NodeRun(pc[caller], Deref(audit, context[caller]))} :
        /\ audit' = Store(audit, context[caller], r.context)
        /\ context' = [context EXCEPT ![caller] = [r.context EXCEPT !.meta = context[caller].meta,
                                                                    !.flags = context[caller].flags]]
        /\ pc' = [pc EXCEPT ![caller] = IF r.raised THEN "raising" ELSE NextNode[pc[caller]]]
        /\ exception' = [exception EXCEPT ![caller] = IF r.raised THEN r.error ELSE @]
    /\ executed' = [executed EXCEPT ![caller] = Append(@, pc[caller])]
    /\ UNCHANGED <<result, llm, open_web>>

concurrent_except(caller) ==
    /\ pc[caller] = "raising"
    /\ IF exception[caller].type = "AgentError"
       THEN /\ pc' = [pc EXCEPT ![caller] = "returned"]
            /\ result' = [result EXCEPT ![caller] = ErrorResult(exception[caller])]
       ELSE /\ pc' = [pc EXCEPT ![caller] = "escaped"]
            /\ result' = result
    /\ UNCHANGED <<context, executed, exception, llm, open_web, audit>>

concurrent_return(caller) ==
    /\ pc[caller] = "END"
    /\ pc' = [pc EXCEPT ![caller] = "returned"]
    /\ result' = [result EXCEPT ![caller] = VerdictResult(Deref(audit, context[caller]))]
    /\ UNCHANGED <<context, executed, exception, llm, open_web, audit>>

ConcurrentNext ==
    \E caller \in Callers :
        \/ concurrent_process_job(caller)
        \/ concurrent_node(caller)
        \/ concurrent_except(caller)
        \/ concurrent_return(caller)

SpecConcurrent == ConcurrentInit /\ [][ConcurrentNext]_vars

\* the dict objects a caller's JobContext refers to
ObjectsOf(caller) == IF pc[caller] = "idle" THEN {} ELSE {context[caller].meta, context[caller].flags}

\* C17: two process_job calls that overlap on one orchestrator never share a
\* JobContext's mutable state: the meta map and the flags ledger of each request are
\* objects of its own (distinct from each other and from those of the other request),
\* and under every interleaving of the nodes of the two requests each caller gets
\* exactly the result its request yields when it runs alone, so that no flag and no
\* metadata key written for one request appears in the result of the other.
C17_RequestsShareNothing ==
    /\ \A caller \in Callers : pc[caller] # "idle" => Cardinality(ObjectsOf(caller)) = 2
    /\ \A a, b \in Callers : a # b => ObjectsOf(a) \cap ObjectsOf(b) = {}
    /\ \A caller \in Callers :
          pc[caller] = "returned" => result[caller] = ProcessJobAlone(context[caller].url)

\* both requests returned; one collected flags and a verdict, the other one stopped at
\* data acquisition with incomplete scraping recorded in its metadata, and the other
\* request's nodes ran in between
C17_Witness ==
    /\ pc["first"] = "returned" /\ pc["second"] = "returned"
    /\ result["first"].verdict \in {"suspicious", "fake", "legit"}
    /\ FlagCount(result["first"].flags, "financial") = 2
    /\ Has(result["second"], "summary")
    /\ Get(result["second"].summary, "scraping_incomplete", FALSE)
    /\ FlagCount(result["second"].flags, "financial") = 0
    /\ audit[context["first"].meta] # audit[context["second"].meta]
    /\ context["first"].meta < context["second"].meta
    /\ context["second"].flags \in DOMAIN audit

-----------------------------------------------------------------------------
(* DataAcquisitionAgent._trim_description on the characters of the description *)

\* the characters str.split() separates at
IsSpace(ch) == ch \in {" ", "\n", "\t"}

\* the tokens of s[lo..hi]: the range itself when it holds no whitespace, else the
\* tokens on both sides of one of its whitespace characters (the one nearest the middle)
RECURSIVE SplitRange(_, _, _)
SplitRange(s, lo, hi) ==
    IF lo > hi THEN <<>>
    ELSE IF \A k \in lo..hi : ~IsSpace(s[k]) THEN <<SubSeq(s, lo, hi)>>
    ELSE LET mid == (lo + hi) \div 2
             after(d) == mid + d <= hi /\ IsSpace(s[mid + d])
             before(d) == mid - d >= lo /\ IsSpace(s[mid - d])
             d == CHOOSE d \in 0..(hi - lo) : after(d) \/ before(d)
             at == IF after(d) THEN mid + d ELSE mid - d
         IN  SplitRange(s, lo, at - 1) \o SplitRange(s, at + 1, hi)

\* description.split(): the maximal runs of characters that are not whitespace
split(s) == SplitRange(s, 1, Len(s))

\* " ".join(tokens[lo..hi])
RECURSIVE JoinRange(_, _, _)
JoinRange(tokens, lo, hi) ==
    IF lo > hi THEN <<>>
    ELSE IF lo = hi THEN tokens[lo]
    ELSE JoinRange(tokens, lo, (lo + hi) \div 2) \o <<" ">> \o JoinRange(tokens, (lo + hi) \div 2 + 1, hi)

join(tokens) == JoinRange(tokens, 1, Len(tokens))

\* an Optional[str]: None, or a str with its characters
NoneStr == [kind |-> "None", chars |-> <<>>]
Str(chars) == [kind |-> "str", chars |-> chars]

\* if not description: return ""; return " ".join(description.split()[:TOKEN_LIMIT])
TrimDescriptionText(description) ==
    IF description.kind = "None" \/ description.chars = <<>> THEN Str(<<>>)
    ELSE Str(join(Prefix(split(description.chars), TOKEN_LIMIT)))

\* unit repeated n times
Repeat(unit, n) == [i \in 1..(n * Len(unit)) |-> unit[((i - 1) % Len(unit)) + 1]]

\* the descriptions passed in: missing, empty, whitespace only, and texts of fewer
\* than, exactly and more than TOKEN_LIMIT tokens with single, double, leading and
\* trailing whitespace
Descriptions ==
    {NoneStr}
    \cup { Str(pad \o Repeat(unit, n)) :
              pad \in {<<>>, <<" ">>, <<"b">>, <<" ", "b", "\n">>},
              unit \in {<<"a", " ">>, <<"a", "b", " ", "\t">>, <<"\n", "a">>, <<" ">>},
              n \in {0, 1, 2, TOKEN_LIMIT - 1, TOKEN_LIMIT, TOKEN_LIMIT + 1, TOKEN_LIMIT + 5} }

\* _trim_description(description), then _trim_description of what it returned
trim_description_call ==
    /\ pc \in {"trim", "trimmed"}
    /\ pc' = IF pc = "trim" THEN "trimmed" ELSE "trimmed again"
    /\ \E description \in {IF pc = "trim" THEN context ELSE audit.returned} :
          audit' = [description |-> description, returned |-> TrimDescriptionText(description)]
    /\ UNCHANGED <<context, executed, exception, result, llm, open_web>>

SpecTrim == (\E description \in Descriptions : CallerInit("trim", description)) /\ [][trim_description_call]_vars

\* C18: _trim_description is idempotent: for every description, the empty and the
\* missing one included, trimming what _trim_description returned returns it unchanged;
\* the result is a str of at most TOKEN_LIMIT (200) whitespace-separated tokens, namely
\* the first TOKEN_LIMIT tokens of the description.
C18_TrimIdempotent ==
    /\ pc = "trimmed again" => audit.returned = audit.description
    /\ pc \in {"trimmed", "trimmed again"} =>
          /\ audit.returned.kind = "str"
          /\ Len(split(audit.returned.chars)) <= TOKEN_LIMIT
          /\ pc = "trimmed" =>
                /\ audit.description = context
                /\ split(audit.returned.chars) = Prefix(split(context.chars), TOKEN_LIMIT)
                /\ context \in {NoneStr, Str(<<>>)} => audit.returned = Str(<<>>)

\* a description of more than TOKEN_LIMIT tokens with irregular whitespace was trimmed
\* to exactly TOKEN_LIMIT tokens, and trimmed again
C18_Witness ==
    /\ pc = "trimmed again"
    /\ Len(split(context.chars)) > TOKEN_LIMIT
    /\ Len(split(audit.returned.chars)) = TOKEN_LIMIT
    /\ Len(audit.returned.chars) < Len(context.chars) - 10
    /\ context.chars[1] = " "

-----------------------------------------------------------------------------
(* DataAcquisitionAgent.run, step by step, with browser rendering enabled or not *)

\* the pages the plain fetch returns: those of the pipeline, and short pages with
\* paywall signals
FetchedPages ==
    Pages \cup { Page("Sign in", Null, [Text(40, 8, {}, {}, <<>>, {}) EXCEPT !.indicator = TRUE], FALSE),
                 Page("Engineer", "Google", Text(40, 8, {}, {}, <<>>, {}), TRUE),
                 Page("Engineer", "Google", Text(40, 8, {}, {}, <<>>, {}), FALSE) }

\* DataAcquisitionAgent(use_browser=...).run(JobContext(url)), with PLAYWRIGHT_AVAILABLE
\* and SELENIUM_AVAILABLE as the imports left them
AcquireInit ==
    /\ pc = "fetch"
    /\ \E url \in Urls : context = JobContext(url)
    /\ \E use_browser \in BOOLEAN, playwright \in BOOLEAN, selenium \in BOOLEAN :
          audit = [use_browser |-> use_browser, playwright |-> playwright, selenium |-> selenium,
                   is_trusted |-> FALSE, st0 |-> InitialScrape(NoPage),
                   st |-> InitialScrape(NoPage), calls |-> <<>>, raised |-> FALSE]
    /\ executed = <<>> /\ exception = NoException /\ result = EmptyDict
    /\ llm = [PROVIDER |-> "mistral", mistral_ready |-> FALSE, ollama_available |-> "None"]
    /\ open_web = NoWeb

\* step 1: the URL is normalised, the page is fetched and scraped
run_fetch ==
    /\ pc = "fetch"
    /\ pc' = "playwright"
    /\ context' = [context EXCEPT !.url = WorkingUrl(context.url)]
    /\ \E page \in FetchedPages :
          audit' = [audit EXCEPT !.is_trusted = IsTrustedDomain(WorkingUrl(context.url).netloc),
                                 !.st0 = InitialScrape(page), !.st = InitialScrape(page)]
    /\ UNCHANGED <<executed, exception, result, llm, open_web>>

\* a call of _fetch_with_playwright or _fetch_with_selenium and what run() makes of it
Rendering(engine, rendered) ==
    [engine |-> engine, best |-> audit.st.desc_length, rendered |-> rendered,
     st |-> RenderStep(audit.st, TRUE, rendered, engine)]

\* step 2, first engine
run_playwright ==
    /\ pc = "playwright"
    /\ pc' = "selenium"
    /\ IF Escalates(audit.st0, audit.use_browser, audit.is_trusted) /\ audit.playwright
       THEN \E rendered \in RenderedPages :
              audit' = [audit EXCEPT !.st = Rendering("playwright", rendered).st,
                                     !.calls = Append(@, Rendering("playwright", rendered))]
       ELSE audit' = audit
    /\ UNCHANGED <<context, executed, exception, result, llm, open_web>>

\* step 2, second engine
run_selenium ==
    /\ pc = "selenium"
    /\ pc' = "classify"
    /\ IF SeleniumTried(audit.st0, audit.st, audit.is_trusted, audit.use_browser, audit.selenium)
       THEN \E rendered \in RenderedPages :
              audit' = [audit EXCEPT !.st = Rendering("selenium", rendered).st,
                                     !.calls = Append(@, Rendering("selenium", rendered))]
       ELSE audit' = audit
    /\ UNCHANGED <<context, executed, exception, result, llm, open_web>>

\* the rest of run(): paywall test, length check, metadata and flags
run_classify ==
    /\ pc = "classify"
    /\ pc' = "acquired"
    /\ \E r \in {Acquired(context, context.url, audit.is_trusted, audit.st, FALSE,
                          audit.use_browser, audit.playwright, audit.selenium)} :
          /\ context' = r.context
          /\ audit' = [audit EXCEPT !.raised = r.raised]
    /\ UNCHANGED <<executed, exception, result, llm, open_web>>

SpecAcquire == AcquireInit /\ [][run_fetch \/ run_playwright \/ run_selenium \/ run_classify]_vars

\* the engines called so far, in order
EnginesCalled == [i \in 1..Len(audit.calls) |-> audit.calls[i].engine]

\* whether call i replaced the description
Accepted(i) == audit.calls[i].st.method = audit.calls[i].engine

\* C19: rendering is escalated to only when, after the plain HTTP fetch, the
\* description is shorter than 100 characters, the domain is trusted and browser
\* rendering is enabled; the engines are tried in the order Playwright, Selenium; a
\* rendered result replaces the description and sets the recorded scraping method only
\* if its description is strictly longer than the current best, and otherwise the
\* description and the method stay as they were; Selenium is not tried once the
\* description has reached 100 characters.
C19_RenderingEscalation ==
    /\ audit.calls # <<>> =>
          audit.st0.desc_length < 100 /\ audit.is_trusted /\ audit.use_browser
    /\ EnginesCalled \in {<<>>, <<"playwright">>, <<"selenium">>, <<"playwright", "selenium">>}
    /\ \A i \in 1..Len(audit.calls) :
          LET call == audit.calls[i]
              previous == IF i = 1 THEN audit.st0 ELSE audit.calls[i - 1].st
          IN  /\ call.best = previous.desc_length /\ call.best < 100
              /\ Accepted(i) =>
                    /\ DescLength(call.rendered.description) > call.best
                    /\ call.st.description = call.rendered.description
                    /\ call.st.desc_length = DescLength(call.rendered.description)
              /\ ~Accepted(i) => call.st = previous
              /\ (call.rendered.html /\ DescLength(call.rendered.description) > call.best)
                    => Accepted(i)
    /\ audit.st = IF audit.calls = <<>> THEN audit.st0 ELSE audit.calls[Len(audit.calls)].st
    /\ pc = "acquired" /\ ~audit.raised =>
          /\ context.meta["scraping_method"] = audit.st.method
          /\ context.description = audit.st.description
          /\ audit.st.method \in {"requests"} \cup {EnginesCalled[i] : i \in 1..Len(audit.calls)}

\* Playwright returned a description that is no longer than the fetched one and was
\* not accepted, then Selenium returned a longer one, which was
C19_Witness ==
    /\ pc = "acquired" /\ EnginesCalled = <<"playwright", "selenium">>
    /\ audit.calls[1].rendered.html
    /\ DescLength(audit.calls[1].rendered.description) = audit.st0.desc_length
    /\ audit.st0.desc_length = 99
    /\ ~Accepted(1) /\ Accepted(2)
    /\ context.meta["scraping_method"] = "selenium"
    /\ DescLength(context.description) >= 100

\* whether the page that run() ended up with shows paywall signals
PaywallSignals ==
    _detect_paywall(audit.st.login_form, audit.st.description.indicator,
                    FullTextWords(audit.st.title, audit.st.description))

AcquisitionFlagsNow == context.flags["acquisition"]

\* C20: when run() finishes without the paywall failure and the final description is
\* shorter than 100 characters: on a trusted domain scraping_incomplete is set, an
\* acquisition flag is added and the recorded reason tells which situation occurred
\* (browser automation disabled, no rendering engine available, rendering attempted
\* with the content still short); on an untrusted domain the flag about the very short
\* description is added and scraping_incomplete is not set. The paywall test comes
\* first: a short page with paywall signals raises and is never recorded as incomplete.
C20_ShortDescriptionClassified ==
    pc = "acquired" =>
      /\ audit.raised = PaywallSignals
      /\ audit.raised =>
            /\ ~Has(context.meta, "scraping_incomplete")
            /\ ~Has(context.meta, "scraping_incomplete_reason")
            /\ AcquisitionFlagsNow = <<"Page requires login or authentication">>
      /\ (~audit.raised /\ audit.st.desc_length < 100 /\ audit.is_trusted) =>
            /\ Get(context.meta, "scraping_incomplete", FALSE) = TRUE
            /\ AcquisitionFlagsNow # <<>>
            /\ Has(context.meta, "scraping_incomplete_reason")
            /\ context.meta["insights"]["scraping"].reason = context.meta["scraping_incomplete_reason"]
            /\ (~audit.use_browser /\ (audit.playwright \/ audit.selenium)) =>
                  /\ audit.calls = <<>>
                  /\ context.meta["scraping_incomplete_reason"]
                        = "Browser automation disabled; page likely requires JavaScript to render."
            /\ ~(audit.playwright \/ audit.selenium) =>
                  /\ audit.calls = <<>>
                  /\ context.meta["scraping_incomplete_reason"]
                        = "Install Playwright or Selenium to render the full job posting."
            /\ (audit.use_browser /\ (audit.playwright \/ audit.selenium)) =>
                  /\ audit.calls # <<>>
                  /\ context.meta["scraping_incomplete_reason"]
                        \in {"JavaScript rendering attempted but content remained truncated.",
                             "Content remained short after playwright rendering.",
                             "Content remained short after selenium rendering."}
      /\ (~audit.raised /\ audit.st.desc_length < 100 /\ ~audit.is_trusted) =>
            /\ ~Has(context.meta, "scraping_incomplete")
            /\ AcquisitionFlagsNow # <<>>
            /\ AcquisitionFlagsNow[1] = "Job description very short ("
                    \o ToString(audit.st.desc_length) \o " chars) - may be incomplete or behind paywall"
      /\ (~audit.raised /\ audit.st.desc_length >= 100) =>
            /\ ~Has(context.meta, "scraping_incomplete")
            /\ ~Has(context.meta, "scraping_incomplete_reason")

\* a trusted domain with engines installed and browser automation disabled: the short
\* description is recorded as incomplete for that reason
C20_Witness ==
    /\ pc = "acquired" /\ ~audit.raised /\ audit.is_trusted
    /\ audit.playwright /\ ~audit.use_browser
    /\ audit.st.desc_length \in 1..99
    /\ Get(context.meta, "scraping_incomplete", FALSE)
    /\ context.meta["scraping_incomplete_reason"]
          = "Browser automation disabled; page likely requires JavaScript to render."

-----------------------------------------------------------------------------
(* The signal stages after an incomplete scrape *)

\* C21: when scraping_incomplete is set in the metadata, the signal stages (content
\* analysis, information extraction, company intelligence, source verification) add
\* no flag to any category, so that the request reaches risk synthesis, and ends, with
\* acquisition flags only; content analysis records the neutral scores 100 and 100.
C21_SignalStagesSkip ==
    Get(context.meta, "scraping_incomplete", FALSE) =>
        /\ OnlyAcquisitionFlags
        /\ Has(context.meta, "content_score") =>
              context.meta["content_score"] = 100 /\ context.meta["financial_score"] = 100

-----------------------------------------------------------------------------
(* The weights of the risk score *)

\* what one flag of a category adds to weighted_total, in hundredths: 15 * weight
Contribution(category, is_trusted) ==
    LET i == CHOOSE i \in 1..Len(CATEGORY_WEIGHTS) : CATEGORY_WEIGHTS[i][1] = category
    IN  15 * EffectiveWeight(category, CATEGORY_WEIGHTS[i][2], is_trusted)

\* C22: each flag adds 15 * weight of its category to the weighted total, with the
\* contribution per flag ordered financial > verification > content > intelligence >
\* acquisition, and the acquisition contribution strictly smaller on a trusted domain
\* than on an untrusted one; so for the same flag counts the risk score on a trusted
\* domain is never higher than on an untrusted one.
C22_WeightsOrdered ==
    /\ \A is_trusted \in BOOLEAN :
          /\ Contribution("financial", is_trusted) > Contribution("verification", is_trusted)
          /\ Contribution("verification", is_trusted) > Contribution("content", is_trusted)
          /\ Contribution("content", is_trusted) > Contribution("intelligence", is_trusted)
          /\ Contribution("intelligence", is_trusted) > Contribution("acquisition", is_trusted)
          /\ Contribution("acquisition", is_trusted) > 0
          /\ weighted_total(context.flags, is_trusted)
                = FlagCount(context.flags, "financial") * Contribution("financial", is_trusted)
                  + FlagCount(context.flags, "verification") * Contribution("verification", is_trusted)
                  + FlagCount(context.flags, "content") * Contribution("content", is_trusted)
                  + FlagCount(context.flags, "intelligence") * Contribution("intelligence", is_trusted)
                  + FlagCount(context.flags, "acquisition") * Contribution("acquisition", is_trusted)
    /\ Contribution("acquisition", TRUE) < Contribution("acquisition", FALSE)
    /\ risk_score_of(context.flags, TRUE) <= risk_score_of(context.flags, FALSE)
    /\ pc = "scored" =>
          context.meta["risk_score"]
              = risk_score_of(context.flags, Get(context.meta, "trusted_domain", FALSE))

\* a trusted context with acquisition flags was scored, lower than the same flags
\* score on an untrusted domain
C22_Witness ==
    /\ pc = "scored" /\ Get(context.meta, "trusted_domain", FALSE)
    /\ FlagCount(context.flags, "acquisition") = 2
    /\ FlagCount(context.flags, "financial") = 1
    /\ context.meta["risk_score"] < risk_score_of(context.flags, FALSE)

-----------------------------------------------------------------------------
(* A flag in a category outside the fixed five, between two runs of risk synthesis *)

UnknownCategories == {"reputation", "Financial"}

\* contexts as the earlier stages may leave them, with or without an incomplete scrape
LedgerContexts ==
    { [ctx EXCEPT !.meta = IF incomplete THEN Put(@, "scraping_incomplete", TRUE) ELSE @] :
        ctx \in ScoredContexts, incomplete \in BOOLEAN }

\* RiskSynthesisAgent().run(context), the LLM gateway unavailable, before and after
\* the flag is added
synthesis_run ==
    /\ pc \in {"synthesise", "synthesise again"}
    /\ \E r \in {RiskSynthesisRun(context, llm, FALSE, Envelope("error", "none"), {},
                                  Envelope("error", "none"))} :
          /\ context' = r.context
          /\ audit' = IF pc = "synthesise"
                      THEN [first |-> r.context.meta, heuristic |-> r.audit.heuristic_verdict,
                            ledger |-> context.flags, category |-> "", message |-> ""]
                      ELSE [audit EXCEPT !.heuristic = r.audit.heuristic_verdict]
    /\ pc' = IF pc = "synthesise" THEN "flag" ELSE "synthesised again"
    /\ UNCHANGED <<executed, exception, result, llm, open_web>>

\* context.add_flag(category, message) with a category the ledger does not hold
add_unknown_flag ==
    /\ pc = "flag"
    /\ \E category \in UnknownCategories, message \in FlagMessages :
          /\ context' = [context EXCEPT !.flags = add_flag(@, category, message)]
          /\ audit' = [audit EXCEPT !.category = category, !.message = message]
    /\ pc' = "synthesise again"
    /\ UNCHANGED <<executed, exception, result, llm, open_web>>

SpecUnknownCategory == (\E ctx \in LedgerContexts : CallerInit("synthesise", ctx)) /\ [][synthesis_run \/ add_unknown_flag]_vars

\* C23: add_flag with a category outside the fixed five creates the category with the
\* message as its only entry and leaves the five lists alone; risk synthesis gives such
\* flags no weight: the risk score, flag_summary and the heuristic verdict (and with
\* them the incomplete_data rule, which does not count them as non-acquisition flags)
\* are what they were without the flag.
C23_UnknownCategoryWeightless ==
    /\ pc \in {"synthesise again", "synthesised again"} =>
          /\ DOMAIN context.flags = DOMAIN audit.ledger \cup {audit.category}
          /\ audit.category \notin DOMAIN audit.ledger
          /\ context.flags[audit.category] = <<audit.message>>
          /\ \A c \in DOMAIN audit.ledger : context.flags[c] = audit.ledger[c]
    /\ pc = "synthesised again" =>
          /\ context.meta["risk_score"] = audit.first["risk_score"]
          /\ context.meta["confidence"] = audit.first["confidence"]
          /\ context.meta["flag_summary"] = audit.first["flag_summary"]
          /\ audit.category \notin DOMAIN context.meta["flag_summary"]
          /\ audit.heuristic = audit.first["verdict"]
          /\ context.meta["verdict"] = audit.first["verdict"]

\* the flag was added to a trusted context with an incomplete scrape and acquisition
\* flags only, and the verdict is incomplete_data as before
C23_Witness ==
    /\ pc = "synthesised again"
    /\ context.meta["verdict"] = "incomplete_data"
    /\ FlagCount(context.flags, "acquisition") = 2
    /\ Get(context.flags, "reputation", <<>>) = <<"Requests payment">>

-----------------------------------------------------------------------------
(* InformationExtractionAgent.run on its own *)

\* the LLM payloads: none, and dicts whose fields are null, empty or filled
ProfilePayloads ==
    { NoPayload }
    \cup { [present |-> TRUE, url |-> url, job_title |-> job_title, company |-> company,
            verified_domain |-> verified_domain] :
              url \in {[netloc |-> <<>>], AcmeUrl},
              job_title \in {Null, "", "Senior Engineer"},
              company \in {Null, "", "Acme Inc"},
              verified_domain \in {<<>>, <<"acme", "com">>} }

\* InformationExtractionAgent().run(context) for an LLM payload
information_extraction_call ==
    /\ pc = "extract"
    /\ \E payload \in ProfilePayloads :
          /\ context' = InformationExtractionRun(context, payload)
          /\ audit' = [payload |-> payload, before |-> context]
    /\ pc' = "extracted"
    /\ UNCHANGED <<executed, exception, result, llm, open_web>>

SpecProfile == (\E ctx \in AcquiredContexts : CallerInit("extract", ctx)) /\ [][information_extraction_call]_vars

\* whether the LLM returned a value that is not null for the key
Supplied(key) ==
    /\ audit.payload.present
    /\ IF key = "url" THEN audit.payload.url.netloc # <<>>
       ELSE IF key = "verified_domain" THEN audit.payload.verified_domain # <<>>
       ELSE audit.payload[key] # Null

\* C24: the profile holds, for url, job_title, company and verified_domain, the LLM's
\* value when the LLM returned one that is not null and else the value the context
\* already had; afterwards context.title and context.company are the profile's
\* job_title and company when those are non-empty and are unchanged otherwise, so a
\* title or company set by an earlier stage is never blanked.
C24_ProfileFieldByField ==
    pc = "extracted" =>
        LET profile == context.meta["structured_profile"]
            before == audit.before
        IN  /\ profile.url = IF Supplied("url") THEN audit.payload.url ELSE before.url
            /\ profile.job_title
                  = IF Supplied("job_title") THEN audit.payload.job_title ELSE before.title
            /\ profile.company
                  = IF Supplied("company") THEN audit.payload.company ELSE before.company
            /\ profile.verified_domain
                  = IF Supplied("verified_domain") THEN audit.payload.verified_domain
                    ELSE Get(before.meta, "source_domain", <<>>)
            /\ context.title = IF profile.job_title \notin {Null, ""} THEN profile.job_title
                               ELSE before.title
            /\ context.company = IF profile.company \notin {Null, ""} THEN profile.company
                                 ELSE before.company
            /\ before.title \notin {Null, ""} => context.title \notin {Null, ""}
            /\ before.company \notin {Null, ""} => context.company \notin {Null, ""}

\* the LLM corrected the title, left the company null and returned an empty
\* verified_domain: the title is propagated, the company is kept
C24_Witness ==
    /\ pc = "extracted"
    /\ audit.payload.present /\ audit.payload.job_title = "Senior Engineer"
    /\ audit.payload.company = Null
    /\ audit.before.title = "Engineer" /\ context.title = "Senior Engineer"
    /\ context.company = audit.before.company /\ context.company = "Acme Corp"
    /\ context.meta["structured_profile"].company = "Acme Corp"

-----------------------------------------------------------------------------
(* _normalize_linkedin_url on its own *)

\* job ids and currentJobId values hold at most this many characters
MaxIdLength == 2

IdTexts == SeqsUpTo({"4", "2", "-"}, MaxIdLength)

\* LinkedIn URLs: search pages with or without a currentJobId parameter, and job views
LinkedInUrls ==
    { [netloc |-> netloc, view |-> view, id |-> id, currentJobId |-> currentJobId] :
        netloc \in {LinkedInNetloc, <<"linkedin", "com">>}, view \in BOOLEAN,
        id \in IdTexts, currentJobId \in IdTexts }

\* _normalize_linkedin_url(url), then _normalize_linkedin_url of what it returned
normalize_call ==
    /\ pc \in {"normalize", "normalized"}
    /\ pc' = IF pc = "normalize" THEN "normalized" ELSE "normalized again"
    /\ \E url \in {IF pc = "normalize" THEN context.url ELSE audit.returned} :
          audit' = [url |-> url, returned |-> _normalize_linkedin_url(url)]
    /\ UNCHANGED <<context, executed, exception, result, llm, open_web>>

SpecNormalize == (\E url \in LinkedInUrls : CallerInit("normalize", JobContext(url))) /\ [][normalize_call]_vars

\* C25: _normalize_linkedin_url is idempotent: normalising what it returned returns it
\* unchanged, also for a currentJobId that is not purely numeric and for a URL that is
\* already a job view.
C25_NormalizeIdempotent ==
    pc = "normalized again" => audit.returned = audit.url

-----------------------------------------------------------------------------
(* What the stages leave of each other's metadata and flags *)

\* the keys of the dict stored under a key of meta (none when the key is absent)
NestedKeys(meta, key) == IF Has(meta, key) THEN DOMAIN meta[key] ELSE {}

\* a step of a stage after which every key of meta, every entry of the
\* company-intelligence bundle and every section of the insights is still there
MetaKept ==
    pc \in DOMAIN NextNode =>
        /\ DOMAIN context.meta \subseteq DOMAIN context'.meta
        /\ NestedKeys(context.meta, "company_intel") \subseteq NestedKeys(context'.meta, "company_intel")
        /\ NestedKeys(context.meta, "insights") \subseteq NestedKeys(context'.meta, "insights")

\* C26: no stage erases metadata an earlier stage wrote: over every step of a stage
\* the keys of meta only grow, and so do the entries of the company-intelligence
\* bundle (such as the scam reports found by the company-intelligence stage) and the
\* sections of the insights.
C26_MetaOnlyGrows == [][MetaKept]_vars

IsPrefixOf(a, b) == Len(a) <= Len(b) /\ SubSeq(b, 1, Len(a)) = a

\* a step of a stage that leaves every category's flags in place and in order and
\* only appends
LedgerExtended ==
    pc \in DOMAIN NextNode =>
        \A c \in DOMAIN context.flags :
            c \in DOMAIN context'.flags /\ IsPrefixOf(context.flags[c], context'.flags[c])

\* C27: within each category the flags keep first-insertion order through the run:
\* every stage leaves the flags already in the ledger where they are and only appends,
\* so the ledger before a stage is, category by category, a prefix of the ledger after.
C27_LedgerOnlyAppended == [][LedgerExtended]_vars

\* the intelligence list holds a flag of the company-intelligence stage followed by
\* flags of the source-verification stage
C27_Witness ==
    /\ pc = "risk_synthesis"
    /\ Len(context.flags["intelligence"]) >= 3
    /\ context.flags["intelligence"][1] = "Potential scam warnings detected via open web search"
    /\ Contains(context.flags["intelligence"], "No HR or recruiting contacts surfaced in public search")
    /\ Len(context.flags["verification"]) >= 2

-----------------------------------------------------------------------------
(* llm_available called by two requests that run at the same time *)

\* each caller asks llm_available() at most this many times
MaxGatewayCalls == 3

GatewayInit ==
    /\ pc = [caller \in Callers |-> "idle"]
    /\ llm \in LlmConfigs
    /\ audit = [probes |-> 0, answers |-> <<>>, calls |-> [caller \in Callers |-> 0]]
    /\ context = JobContext(NoUrl) /\ executed = <<>> /\ exception = NoException
    /\ result = EmptyDict /\ open_web = NoWeb

\* llm_available() up to the network: with the mistral provider, and with a filled
\* cache, it returns at once; with an empty cache GET /api/tags is sent
llm_available_call(caller) ==
    /\ pc[caller] = "idle"
    /\ audit.calls[caller] < MaxGatewayCalls
    /\ IF llm.PROVIDER = "ollama" /\ llm.ollama_available = "None"
       THEN /\ pc' = [pc EXCEPT ![caller] = "probing"]
            /\ audit' = [audit EXCEPT !.probes = @ + 1, !.calls[caller] = @ + 1]
       ELSE /\ pc' = pc
            /\ audit' = [audit EXCEPT !.answers = Append(@, llm_available(llm, FALSE)),
                                      !.calls[caller] = @ + 1]
    /\ UNCHANGED <<context, executed, exception, result, llm, open_web>>

\* the ping comes back (or requests raises): _OLLAMA_AVAILABLE is assigned and returned
probe_returns(caller) ==
    /\ pc[caller] = "probing"
    /\ \E probe \in BOOLEAN :
          /\ llm' = [llm EXCEPT !.ollama_available = IF probe THEN "True" ELSE "False"]
          /\ audit' = [audit EXCEPT !.answers = Append(@, probe)]
    /\ pc' = [pc EXCEPT ![caller] = "idle"]
    /\ UNCHANGED <<context, executed, exception, result, open_web>>

SpecGateway == GatewayInit /\ [][\E caller \in Callers : llm_available_call(caller) \/ probe_returns(caller)]_vars

\* C28: llm_available is a cached probe: with the ollama provider the endpoint is
\* probed at most once per process and every call, in any request, returns the answer
\* of that first probe; with the mistral provider no probe is made at all.
C28_ProbedAtMostOnce ==
    /\ audit.probes <= 1
    /\ llm.PROVIDER # "ollama" => audit.probes = 0
    /\ \A i \in 1..Len(audit.answers) : audit.answers[i] = audit.answers[1]

-----------------------------------------------------------------------------
(* RiskSynthesisAgent.run on two contexts with the same ledger and marks and
   different stage scores *)

\* the stage scores a context carries into risk synthesis, all, some or none of them
StageScores ==
    { [content_score |-> 100, verification_score |-> 100, financial_score |-> 100,
       legitimacy_score |-> 90],
      [content_score |-> 0, verification_score |-> 100, financial_score |-> 100],
      [content_score |-> 40, verification_score |-> 0, financial_score |-> 0,
       legitimacy_score |-> 10],
      EmptyDict }

\* meta with the scores of s: the stage scores as entries of meta, the legitimacy
\* score inside the company_intel bundle
WithStageScores(meta, s) ==
    LET stage == [k \in DOMAIN s \ {"legitimacy_score"} |-> s[k]]
        m == Update(meta, stage)
    IN  IF Has(s, "legitimacy_score")
        THEN Put(m, "company_intel", [legitimacy_score |-> s.legitimacy_score])
        ELSE m

\* ledgers with up to three financial flags, marks, and no scores yet
SameLedgerContexts ==
    { [ctx EXCEPT !.flags["financial"] = FlagList(n)] : ctx \in LedgerContexts, n \in {0, 2, 3} }

\* the first context gets its scores
set_stage_scores ==
    /\ pc = "scores"
    /\ \E s \in StageScores :
          /\ context' = [context EXCEPT !.meta = WithStageScores(@, s)]
          /\ audit' = [ledger |-> context, scores |-> s]
    /\ pc' = "synthesise"
    /\ UNCHANGED <<executed, exception, result, llm, open_web>>

\* RiskSynthesisAgent().run(context) on the first, then on the second context
synthesise_scored ==
    /\ pc \in {"synthesise", "synthesise other"}
    /\ \E r \in {RiskSynthesisRun(context, llm, FALSE, Envelope("error", "none"), {},
                                  Envelope("error", "none"))} :
          /\ context' = r.context
          /\ audit' = IF pc = "synthesise"
                      THEN Update(audit, [first |-> r.context.meta,
                                          first_heuristic |-> r.audit.heuristic_verdict])
                      ELSE Update(audit, [other_heuristic |-> r.audit.heuristic_verdict])
    /\ pc' = IF pc = "synthesise" THEN "other scores" ELSE "synthesised both"
    /\ UNCHANGED <<executed, exception, result, llm, open_web>>

\* the second context: the same ledger and marks, other scores
other_stage_scores ==
    /\ pc = "other scores"
    /\ \E s \in StageScores \ {audit.scores} :
          /\ context' = [audit.ledger EXCEPT !.meta = WithStageScores(@, s)]
          /\ audit' = Update(audit, [other_scores |-> s])
    /\ pc' = "synthesise other"
    /\ UNCHANGED <<executed, exception, result, llm, open_web>>

SpecScoreInputs == (\E ctx \in SameLedgerContexts : CallerInit("scores", ctx)) /\ [][set_stage_scores \/ synthesise_scored \/ other_stage_scores]_vars

\* C29: two contexts with the same flag counts per category and the same
\* trusted_domain and scraping_incomplete marks get the same risk score, confidence,
\* flag_summary and heuristic verdict, whatever their content, verification, financial
\* and company legitimacy scores are.
C29_ScoresAreNoInput ==
    pc = "synthesised both" =>
        /\ context.meta["risk_score"] = audit.first["risk_score"]
        /\ context.meta["confidence"] = audit.first["confidence"]
        /\ context.meta["flag_summary"] = audit.first["flag_summary"]
        /\ audit.other_heuristic = audit.first_heuristic

\* a flagged ledger scored once with every stage score at its worst and once with the
\* best scores, both times suspicious
C29_Witness ==
    /\ pc = "synthesised both"
    /\ audit.first["content_score"] = 100 /\ audit.first["financial_score"] = 100
    /\ context.meta["content_score"] = 40 /\ context.meta["financial_score"] = 0
    /\ context.meta["company_intel"]["legitimacy_score"] = 10
    /\ audit.first_heuristic = "suspicious" /\ audit.other_heuristic = "suspicious"
    /\ context.meta["risk_score"] >= 60

-----------------------------------------------------------------------------
(* RiskSynthesisAgent.run with a sanity-check reply, next to the same run with no reply *)

OverrideInit ==
    /\ pc = "synthesise"
    /\ context \in SameLedgerContexts
    /\ llm \in LlmConfigs
    /\ executed = <<>> /\ exception = NoException /\ result = EmptyDict
    /\ open_web = NoWeb /\ audit = NoAudit

\* RiskSynthesisAgent().run(context): the sanity-check call fails or is answered with
\* some of the verdict words; audit keeps the context there was and the context the
\* run gives when the sanity-check call is not answered
run_with_sanity_reply ==
    /\ pc = "synthesise"
    /\ \E probe \in Probes(llm), words \in SanityReplies,
          sanity \in {Envelope("ok", "prose"), Envelope("error", "none")} :
          \E r \in {RiskSynthesisRun(context, llm, probe, sanity, words, Envelope("error", "none"))},
             unchecked \in {RiskSynthesisRun(context, llm, probe, Envelope("error", "none"), {},
                                             Envelope("error", "none"))} :
             /\ context' = r.context
             /\ audit' = Update(r.audit, [before |-> context, unchecked |-> unchecked.context])
             /\ llm' = AfterProbe(llm, probe)
    /\ pc' = "synthesised"
    /\ UNCHANGED <<executed, exception, result, open_web>>

SpecOverride == OverrideInit /\ [][run_with_sanity_reply]_vars

Overridden == audit.llm_verdict # Null /\ audit.llm_verdict # audit.heuristic_verdict

\* C30: a sanity-check override changes the verdict and adds the heuristic_verdict
\* entry, nothing else: the flags ledger is the one that came in, and risk_score,
\* confidence, flag_summary and every other entry and field are what the run gives
\* without the override.
C30_OverrideChangesOnlyVerdict ==
    (pc = "synthesised" /\ Overridden) =>
        /\ context.flags = audit.before.flags
        /\ context.meta["verdict"] = audit.llm_verdict
        /\ audit.unchecked.meta["verdict"] = audit.heuristic_verdict
        /\ context.meta["insights"] = [risk_synthesis |-> [heuristic_verdict |-> audit.heuristic_verdict]]
        /\ DOMAIN context.meta = DOMAIN audit.unchecked.meta \cup {"insights"}
        /\ \A k \in DOMAIN audit.unchecked.meta \ {"verdict", "insights"} :
              context.meta[k] = audit.unchecked.meta[k]
        /\ [context EXCEPT !.meta = audit.unchecked.meta] = audit.unchecked

\* verdict legit on a ledger with three financial flags and a risk score of 60 or more
C30_Witness ==
    /\ pc = "synthesised" /\ Overridden
    /\ context.meta["verdict"] = "legit" /\ audit.heuristic_verdict = "fake"
    /\ FlagCount(context.flags, "financial") >= 3
    /\ context.meta["risk_score"] >= 60
    /\ context.meta["confidence"] <= 40

====
